---- MODULE Spec2Model ----
(***************************************************************************)
(* Verification model of the Morphic server's request-orchestration layer: *)
(*   - the Process Runner            (server/src/utils/exec.ts)            *)
(*   - the Temp Workspace Manager    (server/src/utils/tempfile.ts)        *)
(*   - the Universal Convert routes  (server/src/routes/convert.ts)        *)
(*   - the Conversion Services       (server/src/services/*.ts)            *)
(*   - the Split and Merge handlers  (routes/split.ts, routes/merge.ts,    *)
(*                                    services/pdf.service.ts)             *)
(* Three specifications share the variables:                               *)
(*   SpecExec  - one call of exec() and the events of its child process    *)
(*   Spec      - one HTTP request through the convert / pdf / ocr routes   *)
(*   SpecPdf   - one HTTP request through the split / merge routes         *)
(* Strings the code inspects character by character (format tokens, file   *)
(* extensions, range specifications) are sequences of one-character        *)
(* strings.                                                                *)
(***************************************************************************)
EXTENDS Integers, Sequences, FiniteSets, TLC

VARIABLES
  \* ---- Process Runner (exec.ts) ----
  called,       \* exec() has been called
  options,      \* the timeoutMs option of the call (0 = not given)
  timeoutMs,    \* the timeout in force for the call
  child,        \* "none" | "running" | "failed" (spawn error) | "closed"
  timer,        \* "unset" | "armed" | "cleared" | "fired"
  stdout,       \* accumulated stdout chunks
  stderr,       \* accumulated stderr chunks
  promise,      \* the promise returned by exec()
  killSent,     \* proc.kill('SIGKILL') has been called
  errorSeen,    \* the 'error' handler has run
  closeSeen,    \* the 'close' handler has run
  closeCode,    \* the code the 'close' event carried
  settleCalls,  \* number of resolve()/reject() calls made so far
  elapsed,      \* milliseconds since the call
  warned        \* logger.warn calls made by the close handler

execVars == <<called, options, timeoutMs, child, timer, stdout, stderr, promise,
              killSent, errorSeen, closeSeen, closeCode, settleCalls, elapsed,
              warned>>

\* ---- Split / Merge routes ----
VARIABLES
  pdfReq,       \* the split or merge request being served
  pdfResp       \* the response it received

pdfVars == <<pdfReq, pdfResp>>

VARIABLES
  \* ---- one request through the convert / pdf-tool / ocr routes ----
  req,          \* the request (route, uploaded file name, body fields)
  phase,        \* "idle" | "received" | "await" | "done"
  targetFormat, \* the route's const targetFormat
  invoked,      \* the service functions the route has called, in order
  passed,       \* the format arguments handed to them
  body,         \* the service body that is running ("" = none)
  pc,           \* the await the body is suspended at
  await,        \* "exec" | "lib" | "none": what the body awaits
  pagesLeft,    \* ocrPdf: page images still to recognise
  created,      \* createTempDir() calls that made a directory
  workspaces,   \* the temp directories that exist on disk
  cleanups,     \* cleanupTempDir() calls
  rmFailed,     \* some fs.rmSync in cleanupTempDir threw
  spawned,      \* external processes spawned for the request
  result,       \* "none" | "returned" | "threw": how the last service call ended
  res,          \* the HTTP response
  filesLeft,    \* batch: files not yet converted
  cause,        \* why the request failed: "spawn" | "timeout" | "tool" | ...
  errMessage,   \* what the `error` string of the response contains
  errHint,      \* the hint appended to it
  headersSent,  \* the headers of the response have gone to the client
  lateResponse, \* a response was attempted after the headers had gone
  qpdfRuns,     \* addPassword / removePassword: the qpdf runs and their results
  returned,     \* the temp file whose content the last service call returned
  ocrLog,       \* ocrPdf: the awaits that settled, in order, and what each gave
  lastRun       \* the await that settled last: the body, the await, what it saw

convVars == <<req, phase, targetFormat, invoked, passed, body, pc, await, pagesLeft,
              created, workspaces, cleanups, rmFailed, spawned, result, res,
              filesLeft, cause, errMessage, errHint, headersSent, lateResponse,
              qpdfRuns, returned, ocrLog, lastRun>>

VARIABLES
  \* ---- a client chaining the page operations of pdf.service.ts ----
  pgFiles,      \* the PDF buffers the client holds at the start
  pgDoc,        \* the document the client holds now
  pgLog,        \* the operations applied so far, each with its input and result
  pgParts       \* the documents the last split returned

pgVars == <<pgFiles, pgDoc, pgLog, pgParts>>

VARIABLES
  \* ---- the periodic sweep of the temp base, startTempCleanup ----
  running,      \* TRUE once startTempCleanup has installed its interval
  tmpBase,      \* the entries of the temp base, by name in readdir order
  owners,       \* per entry: a job in flight owns it, and since when
  lost          \* how old the workspaces of jobs in flight were when the sweep deleted them

sweepVars == <<running, tmpBase, owners, lost>>

VARIABLES
  \* ---- concurrent jobs and the paths they touch ----
  platform,     \* "posix" or "win32": which path module path.join is
  issued,       \* the uuids createTempDir has drawn so far
  jobs          \* per job: its upload, its workspace, its position, the paths touched

jobVars == <<platform, issued, jobs>>

VARIABLES
  \* ---- one call of convertVideo and the ffmpeg command line it builds ----
  vidCall,      \* the call: inputFilename, targetFormat, opts, and the host's path module
  vidArgs,      \* the argument vector handed to exec (<<>> before the call)
  vidResult     \* "none", "pending" (awaiting ffmpeg), "returned" or "thrown"

videoVars == <<vidCall, vidArgs, vidResult>>

VARIABLES
  \* ---- the module-state reducer of useModuleState ----
  modState,     \* the reducer state: current, history, index
  modLog        \* the last dispatched actions, each with the state it was applied to

modVars == <<modState, modLog>>

VARIABLES
  \* ---- the FileManagerProvider: its React state and what its callbacks captured ----
  fmSets,       \* sets: what the sidebar displays
  fmHistory,    \* history
  fmIndex,      \* historyIndex
  fmSeen,       \* sets, history and historyIndex as of the last render (the closures)
  fmPending,    \* calls made since the last render
  fmLoaded,     \* the load from the database has finished
  fmRaces,      \* calls that ran on closures older than the state
  fmFellBack    \* factoryReset could not clear the database and replaced sets alone

fmVars == <<fmSets, fmHistory, fmIndex, fmSeen, fmPending, fmLoaded, fmRaces, fmFellBack>>

vars == <<execVars, pdfVars, convVars, pgVars, sweepVars, jobVars, videoVars, modVars, fmVars>>

\* each component leaves the variables of the others alone
ExecOnly == UNCHANGED <<pdfVars, convVars, pgVars, sweepVars, jobVars, videoVars, modVars, fmVars>>

PdfOnly == UNCHANGED <<execVars, convVars, pgVars, sweepVars, jobVars, videoVars, modVars, fmVars>>

ConvOnly == UNCHANGED <<execVars, pdfVars, pgVars, sweepVars, jobVars, videoVars, modVars, fmVars>>

PgOnly == UNCHANGED <<execVars, pdfVars, convVars, sweepVars, jobVars, videoVars, modVars, fmVars>>

SweepOnly == UNCHANGED <<execVars, pdfVars, convVars, pgVars, jobVars, videoVars, modVars, fmVars>>

JobOnly == UNCHANGED <<execVars, pdfVars, convVars, pgVars, sweepVars, videoVars, modVars, fmVars>>

VideoOnly == UNCHANGED <<execVars, pdfVars, convVars, pgVars, sweepVars, jobVars, modVars, fmVars>>

ModOnly == UNCHANGED <<execVars, pdfVars, convVars, pgVars, sweepVars, jobVars, videoVars, fmVars>>

FmOnly == UNCHANGED <<execVars, pdfVars, convVars, pgVars, sweepVars, jobVars, videoVars, modVars>>

\* ------------------------------------------------------------------------
\* Generic helpers
\* ------------------------------------------------------------------------
Range(s) == {s[i] : i \in 1..Len(s)}

Min2(a, b) == IF a <= b THEN a ELSE b

Max2(a, b) == IF a >= b THEN a ELSE b

\* ========================================================================
\* Process Runner: exec(command, args, {timeoutMs})
\* ========================================================================
DefaultTimeoutMs == 5 * 60 * 1000

\* the timeouts the services pass (absent = default), in milliseconds
TimeoutOptions == {0, 60 * 1000, 120000, 10 * 60 * 1000}

TickMs == 60 * 1000

MaxTicks == 11

MaxChunks == 2

Chunks == {"a", "b"}

\* what the 'close' event carries: an exit code, or null after a signal
ExitCodes == 0..3

ClosePayloads == [isNull : {FALSE}, val : ExitCodes] \cup {[isNull |-> TRUE, val |-> 0]}

\* errno carried by the close that follows a failed spawn (ENOENT)
SpawnErrno == 0 - 2

Pending == [state |-> "pending"]

\* resolve()/reject() of a JavaScript promise: only the first call settles
Settle(p, outcome) == IF p.state = "pending" THEN outcome ELSE p

\* const exitCode = code ?? 1
ExitCodeOfMut(payload) == IF payload.isNull THEN 0 ELSE payload.val

ExitCodeOf(payload) == IF payload.isNull THEN 1 ELSE payload.val

\* const { timeoutMs = 5 * 60 * 1000, ...spawnOpts } = options   (0 = absent)
EffectiveTimeout(opt) == IF opt = 0 THEN DefaultTimeoutMs ELSE opt

ExecIdle ==
  /\ called = FALSE
  /\ options = 0
  /\ timeoutMs = 0
  /\ child = "none"
  /\ timer = "unset"
  /\ stdout = <<>>
  /\ stderr = <<>>
  /\ promise = Pending
  /\ killSent = FALSE
  /\ errorSeen = FALSE
  /\ closeSeen = FALSE
  /\ closeCode = [isNull |-> TRUE, val |-> 0]
  /\ settleCalls = 0
  /\ elapsed = 0
  /\ warned = 0

\* exec(): the promise executor - spawn, register the handlers, arm the timer.
\* spawn() either starts the child, or reports ENOENT/EACCES asynchronously
\* through the 'error' event ("failed"), or throws inside the executor
\* ("throws"), which rejects the promise before any timer exists.
exec(opt, spawnResult) ==
  /\ ~called
  /\ called' = TRUE
  /\ options' = opt
  /\ timeoutMs' = EffectiveTimeout(opt)
  /\ IF spawnResult = "throws"
       THEN /\ child' = "none"
            /\ timer' = "unset"
            /\ promise' = Settle(promise, [state |-> "rejected", reason |-> "spawn"])
            /\ settleCalls' = settleCalls + 1
       ELSE /\ child' = IF spawnResult = "ok" THEN "running" ELSE "failed"
            /\ timer' = "armed"
            /\ promise' = promise
            /\ settleCalls' = settleCalls
  /\ UNCHANGED <<stdout, stderr, killSent, errorSeen, closeSeen, closeCode,
                 elapsed, warned>>
  /\ ExecOnly

\* proc.stdout.on('data', d => stdout += d)
OnStdoutData(d) ==
  /\ child = "running"
  /\ Len(stdout) < MaxChunks
  /\ stdout' = Append(stdout, d)
  /\ UNCHANGED <<called, options, timeoutMs, child, timer, stderr, promise, killSent,
                 errorSeen, closeSeen, closeCode, settleCalls, elapsed, warned>>
  /\ ExecOnly

\* proc.stderr.on('data', d => stderr += d)
OnStderrData(d) ==
  /\ child = "running"
  /\ Len(stderr) < MaxChunks
  /\ stderr' = Append(stderr, d)
  /\ UNCHANGED <<called, options, timeoutMs, child, timer, stdout, promise, killSent,
                 errorSeen, closeSeen, closeCode, settleCalls, elapsed, warned>>
  /\ ExecOnly

\* the setTimeout callback: kill, then reject
OnTimeoutMut ==
  /\ timer = "armed"
  /\ elapsed >= timeoutMs
  /\ timer' = "fired"
  /\ killSent' = TRUE
  /\ UNCHANGED <<called, options, timeoutMs, child, stdout, stderr, promise, errorSeen,
                 closeSeen, closeCode, settleCalls, elapsed, warned>>
  /\ ExecOnly

OnTimeout ==
  /\ timer = "armed"
  /\ elapsed >= timeoutMs
  /\ timer' = "fired"
  /\ killSent' = TRUE
  /\ promise' = Settle(promise, [state |-> "rejected", reason |-> "timeout"])
  /\ settleCalls' = settleCalls + 1
  /\ UNCHANGED <<called, options, timeoutMs, child, stdout, stderr, errorSeen,
                 closeSeen, closeCode, elapsed, warned>>
  /\ ExecOnly

\* clearTimeout(timer): cancels a pending timer, no effect on one that ran
ClearTimeout(t) == IF t = "armed" THEN "cleared" ELSE t

\* proc.on('close', code => ...).  A running child closes with its exit code
\* (null when it died from a signal); after a failed spawn Node emits 'close'
\* with the negative errno once the 'error' event has been delivered.
OnClose(payload) ==
  /\ \/ child = "running" /\ payload \in ClosePayloads
     \/ child = "failed" /\ errorSeen /\ payload = [isNull |-> FALSE, val |-> SpawnErrno]
  /\ ~closeSeen
  /\ closeSeen' = TRUE
  /\ closeCode' = payload
  /\ child' = IF child = "running" THEN "closed" ELSE child
  /\ timer' = ClearTimeout(timer)
  /\ warned' = IF ExitCodeOf(payload) # 0 THEN warned + 1 ELSE warned
  /\ promise' = Settle(promise, [state |-> "resolved", stdout |-> stdout,
                                 stderr |-> stderr, code |-> ExitCodeOf(payload)])
  /\ settleCalls' = settleCalls + 1
  /\ UNCHANGED <<called, options, timeoutMs, stdout, stderr, killSent,
                 errorSeen, elapsed>>
  /\ ExecOnly

\* proc.on('error', err => ...)
OnError ==
  /\ child = "failed"
  /\ ~errorSeen
  /\ errorSeen' = TRUE
  /\ timer' = ClearTimeout(timer)
  /\ promise' = Settle(promise, [state |-> "rejected", reason |-> "spawn"])
  /\ settleCalls' = settleCalls + 1
  /\ UNCHANGED <<called, options, timeoutMs, child, stdout, stderr, killSent, closeSeen, closeCode,
                 elapsed, warned>>
  /\ ExecOnly

\* time passes
Tick ==
  /\ called
  /\ ~(child = "failed" /\ ~errorSeen)   \* the 'error' of a failed spawn is emitted on the next tick
  /\ elapsed < MaxTicks * TickMs
  /\ elapsed' = elapsed + TickMs
  /\ UNCHANGED <<called, options, timeoutMs, child, timer, stdout, stderr, promise,
                 killSent, errorSeen, closeSeen, closeCode, settleCalls, warned>>
  /\ ExecOnly

ExecNext ==
  \/ \E opt \in TimeoutOptions, s \in {"ok", "failed", "throws"} : exec(opt, s)
  \/ \E d \in Chunks : OnStdoutData(d)
  \/ \E d \in Chunks : OnStderrData(d)
  \/ OnTimeout
  \/ \E p \in ClosePayloads \cup {[isNull |-> FALSE, val |-> SpawnErrno]} : OnClose(p)
  \/ OnError
  \/ Tick


\* ========================================================================
\* JavaScript string operations, on sequences of one-character strings
\* ========================================================================
DigitChars == <<"0", "1", "2", "3", "4", "5", "6", "7", "8", "9">>

IsDigit(c) == \E i \in 1..10 : DigitChars[i] = c

DigitVal(c) == (CHOOSE i \in 1..10 : DigitChars[i] = c) - 1

\* String(n) for a non-negative integer
RECURSIVE Digits(_)
Digits(n) == IF n < 10 THEN <<DigitChars[n + 1]>>
             ELSE Digits(n \div 10) \o <<DigitChars[(n % 10) + 1]>>

\* s.includes(c), c one character
Includes(s, c) == \E i \in 1..Len(s) : s[i] = c

\* s.trim()
RECURSIVE TrimLeft(_)
TrimLeft(s) == IF s # <<>> /\ Head(s) = " " THEN TrimLeft(Tail(s)) ELSE s

RECURSIVE TrimRight(_)
TrimRight(s) == IF s # <<>> /\ s[Len(s)] = " " THEN TrimRight(SubSeq(s, 1, Len(s) - 1)) ELSE s

Trim(s) == TrimRight(TrimLeft(s))

\* s.split(c): the pieces between the occurrences of c (always one piece or more)
RECURSIVE SplitAcc(_, _, _)
SplitAcc(s, c, cur) ==
  IF s = <<>> THEN <<cur>>
  ELSE IF Head(s) = c THEN <<cur>> \o SplitAcc(Tail(s), c, <<>>)
  ELSE SplitAcc(Tail(s), c, Append(cur, Head(s)))

Split(s, c) == SplitAcc(s, c, <<>>)

\* Number(s): surrounding white space is ignored, the empty string is 0, a
\* string of decimal digits is its value, anything else here is NaN
NaN == [nan |-> TRUE, val |-> 0]

Num(n) == [nan |-> FALSE, val |-> n]

RECURSIVE DigitsValue(_, _)
DigitsValue(s, acc) == IF s = <<>> THEN acc
                       ELSE DigitsValue(Tail(s), acc * 10 + DigitVal(Head(s)))

Number(s) ==
  LET t == Trim(s) IN
    IF \A i \in 1..Len(t) : IsDigit(t[i]) THEN Num(DigitsValue(t, 0)) ELSE NaN

\* seq.map(f) and concatenation of a sequence of sequences
RECURSIVE Flatten(_)
Flatten(ss) == IF ss = <<>> THEN <<>> ELSE Head(ss) \o Flatten(Tail(ss))

\* ========================================================================
\* PDF documents (pdf-lib): a document is the sequence of its pages'
\* contents; an uploaded buffer either loads as a document (PdfBuffer) or
\* makes PDFDocument.load throw (Corrupt)
\* ========================================================================
PdfBuffer(pages) == [pdf |-> TRUE, pages |-> pages]

Corrupt == [pdf |-> FALSE, pages |-> <<>>]

\* ------------------------------------------------------------------------
\* pdf.service.ts: parseRanges, splitPdf, splitPdfAll, mergePdfs
\* ------------------------------------------------------------------------

\* for (let i = Math.max(1, start); i <= Math.min(total, end); i++) pages.push(i)
\* Math.max / Math.min yield NaN when an argument is NaN, and i <= NaN is false
RangePages(start, end, total) ==
  IF start.nan \/ end.nan THEN <<>>
  ELSE LET lo == Max2(1, start.val)
           hi == Min2(total, end.val)
       IN  IF lo > hi THEN <<>> ELSE [k \in 1..(hi - lo + 1) |-> lo + k - 1]

\* one comma-separated part of a group
PartPagesMut(part, total) ==
  IF Includes(part, "-")
    THEN LET nums == [k \in 1..Len(Split(part, "-")) |-> Number(Split(part, "-")[k])]
         IN  RangePages(nums[1], nums[2], total)
    ELSE LET n == Number(part)
         IN  IF ~n.nan /\ n.val >= 1 /\ n.val < total THEN <<n.val>> ELSE <<>>

PartPages(part, total) ==
  IF Includes(part, "-")
    THEN LET nums == [k \in 1..Len(Split(part, "-")) |-> Number(Split(part, "-")[k])]
         IN  RangePages(nums[1], nums[2], total)
    ELSE LET n == Number(part)
         IN  IF ~n.nan /\ n.val >= 1 /\ n.val <= total THEN <<n.val>> ELSE <<>>

\* the pages of one semicolon-separated group
GroupPages(group, total) ==
  LET parts == [k \in 1..Len(Split(group, ",")) |-> Trim(Split(group, ",")[k])]
  IN  Flatten([k \in 1..Len(parts) |-> PartPages(parts[k], total)])

parseRanges(input, total) ==
  LET groups == [k \in 1..Len(Split(input, ";")) |-> Trim(Split(input, ";")[k])]
      parsed == [k \in 1..Len(groups) |-> GroupPages(groups[k], total)]
  IN  SelectSeq(parsed, LAMBDA g : Len(g) > 0)

\* doc.copyPages(src, indices) followed by addPage of each: range holds
\* 1-based page numbers, the code copies index i - 1
CopyPages(src, range) == [k \in 1..Len(range) |-> src[(range[k] - 1) + 1]]

\* splitPdf(buffer, ranges) for a buffer that loads
splitPdfMut(src, ranges) ==
  LET parsedRanges == parseRanges(ranges, Len(src))
  IN  [k \in 1..Len(parsedRanges) |->
         CopyPages(src, parsedRanges[Len(parsedRanges) + 1 - k])]

splitPdf(src, ranges) ==
  LET parsedRanges == parseRanges(ranges, Len(src))
  IN  [k \in 1..Len(parsedRanges) |-> CopyPages(src, parsedRanges[k])]

\* splitPdfAll(buffer): one document per page
splitPdfAll(src) == [i \in 1..Len(src) |-> <<src[i]>>]

\* mergePdfs(buffers) for buffers that all load
RECURSIVE mergePdfsMut(_)
mergePdfsMut(buffers) ==
  IF buffers = <<>> THEN <<>>
  ELSE mergePdfsMut(Tail(buffers)) \o Head(buffers).pages

RECURSIVE mergePdfs(_)
mergePdfs(buffers) ==
  IF buffers = <<>> THEN <<>>
  ELSE Head(buffers).pages \o mergePdfs(Tail(buffers))

\* ------------------------------------------------------------------------
\* routes/split.ts and routes/merge.ts
\* ------------------------------------------------------------------------
NoResp == [status |-> 0, type |-> "none", error |-> FALSE, docs |-> <<>>]

JsonError(code) == [status |-> code, type |-> "json", error |-> TRUE, docs |-> <<>>]

\* res.send(results[0]) for one result, otherwise a zip with one entry per
\* result, entry i named page-i.pdf
SplitResponse(results) ==
  IF Len(results) = 1
    THEN [status |-> 200, type |-> "pdf", error |-> FALSE, docs |-> <<results[1]>>]
    ELSE [status |-> 200, type |-> "zip", error |-> FALSE, docs |-> results]

\* the ranges body field: hasRanges = FALSE when the field is not sent
\* (undefined); `!ranges` is true for undefined and for the empty string
AllString == <<"a", "l", "l">>

SplitHandler(r) ==
  IF ~r.hasFile THEN JsonError(400)
  ELSE IF ~r.file.pdf THEN JsonError(500)
  ELSE IF ~r.hasRanges \/ r.ranges = <<>> \/ r.ranges = AllString
    THEN SplitResponse(splitPdfAll(r.file.pages))
  ELSE SplitResponse(splitPdf(r.file.pages, r.ranges))

MergeHandler(r) ==
  IF Len(r.files) < 2 THEN JsonError(400)
  ELSE IF \E i \in 1..Len(r.files) : ~r.files[i].pdf THEN JsonError(500)
  ELSE [status |-> 200, type |-> "pdf", error |-> FALSE, docs |-> <<mergePdfs(r.files)>>]

\* ------------------------------------------------------------------------
\* Requests of the split and merge routes
\* ------------------------------------------------------------------------
MaxPages == 3

MaxFiles == 3

MaxDocPages == 2

PageContents == {"A", "B"}

\* the uploaded PDF of the split requests: page i carries content i
SrcDoc(n) == PdfBuffer([i \in 1..n |-> i])

\* a range item as the user writes it: a page number p, or lo-hi
PageNums == 0..(MaxPages + 1)

Items == [isRange : {FALSE}, lo : PageNums, hi : {0}]
           \cup [isRange : {TRUE}, lo : PageNums, hi : PageNums]

SingleItems == {it \in Items : ~it.isRange}

RangeSpecs ==
  {<<>>}
    \cup {<<<<i>>>> : i \in Items}
    \cup {<<<<i, j>>>> : i \in Items, j \in Items}
    \cup {<<<<i>>, <<j>>>> : i \in Items, j \in Items}
    \cup {<<<<i>>, <<j>>, <<k>>>> : i \in SingleItems, j \in SingleItems, k \in SingleItems}

\* the text of a specification: items joined by commas, groups by semicolons,
\* optionally with blanks around the separators
Sep(c, spaced) == IF spaced THEN <<" ", c, " ">> ELSE <<c>>

FormatItem(it, spaced) ==
  IF it.isRange THEN Digits(it.lo) \o Sep("-", spaced) \o Digits(it.hi)
  ELSE Digits(it.lo)

RECURSIVE Join(_, _)
Join(ss, sep) ==
  IF ss = <<>> THEN <<>>
  ELSE IF Len(ss) = 1 THEN ss[1]
  ELSE ss[1] \o sep \o Join(Tail(ss), sep)

FormatGroup(g, spaced) ==
  Join([k \in 1..Len(g) |-> FormatItem(g[k], spaced)], Sep(",", spaced))

FormatSpec(spec, spaced) ==
  Join([k \in 1..Len(spec) |-> FormatGroup(spec[k], spaced)], Sep(";", spaced))

SplitReq(hasFile, file, hasRanges, ranges, structured, groups) ==
  [route |-> "split", hasFile |-> hasFile, file |-> file, files |-> <<>>,
   hasRanges |-> hasRanges, ranges |-> ranges,
   structured |-> structured, groups |-> groups]

\* the scenario of the specification: six pages, "1-2;3-4;5-6"
ScenarioSpec ==
  << <<[isRange |-> TRUE, lo |-> 1, hi |-> 2]>>,
     <<[isRange |-> TRUE, lo |-> 3, hi |-> 4]>>,
     <<[isRange |-> TRUE, lo |-> 5, hi |-> 6]>> >>

\* range texts that are not lists of page items
OddRanges == { <<"a">>, <<"1", ",", ",", "2">>, <<"2", "-">>, <<";">>,
               <<"1", " ", "2">>, <<"1", "-", "2", "-", "3">>, <<" ">> }

SplitRequests ==
  {SplitReq(TRUE, SrcDoc(n), TRUE, FormatSpec(spec, spaced), TRUE, spec) :
      n \in 1..MaxPages, spec \in RangeSpecs, spaced \in BOOLEAN}
    \cup {SplitReq(TRUE, SrcDoc(6), TRUE, FormatSpec(ScenarioSpec, FALSE), TRUE, ScenarioSpec)}
    \cup {SplitReq(TRUE, SrcDoc(n), TRUE, AllString, FALSE, <<>>) : n \in 1..MaxPages}
    \cup {SplitReq(TRUE, SrcDoc(n), FALSE, <<>>, FALSE, <<>>) : n \in 1..MaxPages}
    \cup {SplitReq(TRUE, SrcDoc(n), TRUE, odd, FALSE, <<>>) : n \in 1..MaxPages, odd \in OddRanges}
    \cup {SplitReq(TRUE, Corrupt, TRUE, AllString, FALSE, <<>>),
          SplitReq(FALSE, Corrupt, TRUE, AllString, FALSE, <<>>)}

\* the uploads of a merge request: up to MaxFiles buffers, each a document of
\* up to MaxDocPages pages or a buffer that is not a PDF
RECURSIVE SeqsUpTo(_, _)
SeqsUpTo(S, n) ==
  IF n = 0 THEN {<<>>}
  ELSE LET shorter == SeqsUpTo(S, n - 1)
       IN  shorter \cup {Append(s, x) : s \in {t \in shorter : Len(t) = n - 1}, x \in S}

MergeBuffers == {PdfBuffer(pages) : pages \in SeqsUpTo(PageContents, MaxDocPages)} \cup {Corrupt}

MergeRequests ==
  {[route |-> "merge", hasFile |-> FALSE, file |-> Corrupt, files |-> fs,
    hasRanges |-> FALSE, ranges |-> <<>>, structured |-> FALSE, groups |-> <<>>] :
      fs \in SeqsUpTo(MergeBuffers, MaxFiles)}

NoPdfReq == [route |-> "none", hasFile |-> FALSE, file |-> Corrupt, files |-> <<>>,
             hasRanges |-> FALSE, ranges |-> <<>>, structured |-> FALSE, groups |-> <<>>]

PdfIdle ==
  /\ pdfReq = NoPdfReq
  /\ pdfResp = NoResp

\* POST /api/split: the handler of routes/split.ts, from the upload to the response
SplitRoute ==
  /\ pdfReq.route = "split"
  /\ pdfResp = NoResp
  /\ pdfResp' = SplitHandler(pdfReq)
  /\ UNCHANGED pdfReq
  /\ PdfOnly

\* POST /api/merge: the handler of routes/merge.ts
MergeRoute ==
  /\ pdfReq.route = "merge"
  /\ pdfResp = NoResp
  /\ pdfResp' = MergeHandler(pdfReq)
  /\ UNCHANGED pdfReq
  /\ PdfOnly

PdfNext ==
  \/ SplitRoute
  \/ MergeRoute

\* ========================================================================
\* Format Classifiers and the Universal Convert Dispatcher (routes/convert.ts)
\* ========================================================================
UpperChars == <<"A", "B", "C", "D", "E", "F", "G", "H", "I", "J", "K", "L", "M",
                "N", "O", "P", "Q", "R", "S", "T", "U", "V", "W", "X", "Y", "Z">>

LowerChars == <<"a", "b", "c", "d", "e", "f", "g", "h", "i", "j", "k", "l", "m",
                "n", "o", "p", "q", "r", "s", "t", "u", "v", "w", "x", "y", "z">>

IsUpper(c) == \E i \in 1..26 : UpperChars[i] = c

\* s.toLowerCase()
ToLowerChar(c) == IF IsUpper(c) THEN LowerChars[CHOOSE i \in 1..26 : UpperChars[i] = c] ELSE c

ToLowerCase(s) == [i \in 1..Len(s) |-> ToLowerChar(s[i])]

\* s.replace('.', ''): removes the first dot only
RECURSIVE RemoveFirstDot(_)
RemoveFirstDot(s) ==
  IF s = <<>> THEN <<>>
  ELSE IF Head(s) = "." THEN Tail(s)
  ELSE <<Head(s)>> \o RemoveFirstDot(Tail(s))

\* document.service.ts: OFFICE_EXTENSIONS
OFFICE_EXTENSIONS ==
  { <<"d", "o", "c">>, <<"d", "o", "c", "x">>, <<"x", "l", "s">>,
    <<"x", "l", "s", "x">>, <<"p", "p", "t">>, <<"p", "p", "t", "x">>,
    <<"o", "d", "t">>, <<"o", "d", "s">>, <<"o", "d", "p">>,
    <<"o", "d", "g">>, <<"r", "t", "f">>, <<"t", "x", "t">>,
    <<"c", "s", "v">>, <<"h", "t", "m", "l">>, <<"h", "t", "m">>,
    <<"w", "p", "d">>, <<"w", "p", "s">>, <<"x", "m", "l">> }

\* document.service.ts: EBOOK_EXTENSIONS
EBOOK_EXTENSIONS ==
  { <<"e", "p", "u", "b">>, <<"m", "o", "b", "i">>,
    <<"a", "z", "w", "3">>, <<"f", "b", "2">>, <<"l", "i", "t">>,
    <<"p", "d", "b">>, <<"c", "b", "z">>, <<"c", "b", "r">> }

\* video.service.ts: VIDEO_EXTENSIONS
VIDEO_EXTENSIONS ==
  { <<"m", "p", "4">>, <<"a", "v", "i">>, <<"m", "k", "v">>,
    <<"w", "e", "b", "m">>, <<"m", "o", "v">>, <<"f", "l", "v">>,
    <<"w", "m", "v">>, <<"t", "s">>, <<"m", "4", "v">>, <<"3", "g", "p">> }

\* video.service.ts: AUDIO_EXTENSIONS
AUDIO_EXTENSIONS ==
  { <<"m", "p", "3">>, <<"w", "a", "v">>, <<"a", "a", "c">>,
    <<"o", "g", "g">>, <<"f", "l", "a", "c">>, <<"w", "m", "a">>,
    <<"m", "4", "a">>, <<"o", "p", "u", "s">> }

\* convert.ts: the list of isImageFormat
IMAGE_FORMATS ==
  { <<"p", "n", "g">>, <<"j", "p", "g">>, <<"j", "p", "e", "g">>,
    <<"w", "e", "b", "p">>, <<"t", "i", "f", "f">>,
    <<"a", "v", "i", "f">>, <<"g", "i", "f">>, <<"b", "m", "p">>,
    <<"s", "v", "g">>, <<"i", "c", "o">>, <<"h", "e", "i", "c">>,
    <<"h", "e", "i", "f">> }

\* getSupportedConversions(): documents.toPdf
DocumentsToPdf ==
  { <<"d", "o", "c">>, <<"d", "o", "c", "x">>, <<"x", "l", "s">>,
    <<"x", "l", "s", "x">>, <<"p", "p", "t">>, <<"p", "p", "t", "x">>,
    <<"o", "d", "t">>, <<"o", "d", "s">>, <<"o", "d", "p">>,
    <<"r", "t", "f">>, <<"t", "x", "t">>, <<"c", "s", "v">>,
    <<"h", "t", "m", "l">>, <<"m", "d">> }

\* getSupportedConversions(): documents.fromPdf
DocumentsFromPdf ==
  { <<"d", "o", "c", "x">>, <<"x", "l", "s", "x">>,
    <<"p", "p", "t", "x">>, <<"o", "d", "t">>, <<"t", "x", "t">>,
    <<"h", "t", "m", "l">>, <<"c", "s", "v">>, <<"r", "t", "f">> }

\* getSupportedConversions(): images.formats
ImagesFormats ==
  { <<"p", "n", "g">>, <<"j", "p", "g">>, <<"j", "p", "e", "g">>,
    <<"w", "e", "b", "p">>, <<"t", "i", "f", "f">>,
    <<"a", "v", "i", "f">>, <<"g", "i", "f">>, <<"b", "m", "p">>,
    <<"s", "v", "g">>, <<"i", "c", "o">>, <<"h", "e", "i", "c">>,
    <<"h", "e", "i", "f">> }

\* getSupportedConversions(): video.formats
VideoFormats ==
  { <<"m", "p", "4">>, <<"a", "v", "i">>, <<"m", "k", "v">>,
    <<"w", "e", "b", "m">>, <<"m", "o", "v">>, <<"f", "l", "v">>,
    <<"w", "m", "v">>, <<"g", "i", "f">> }

\* getSupportedConversions(): audio.formats
AudioFormats ==
  { <<"m", "p", "3">>, <<"w", "a", "v">>, <<"a", "a", "c">>,
    <<"o", "g", "g">>, <<"f", "l", "a", "c">> }

\* getSupportedConversions(): ebooks.formats
EbooksFormats ==
  { <<"e", "p", "u", "b">>, <<"m", "o", "b", "i">>,
    <<"a", "z", "w", "3">>, <<"f", "b", "2">>, <<"p", "d", "f">> }

Pdf == <<"p", "d", "f">>

isOfficeFormat(ext) == RemoveFirstDot(ToLowerCase(ext)) \in OFFICE_EXTENSIONS

isEbookFormat(ext) == RemoveFirstDot(ToLowerCase(ext)) \in EBOOK_EXTENSIONS

isVideoFormat(ext) == RemoveFirstDot(ToLowerCase(ext)) \in VIDEO_EXTENSIONS

isAudioFormat(ext) == RemoveFirstDot(ToLowerCase(ext)) \in AUDIO_EXTENSIONS

isImageFormat(ext) == ext \in IMAGE_FORMATS

\* path.extname(name) for a bare file name: from the last dot to the end,
\* empty when there is no dot or the only dot is the first character
LastDot(name) ==
  IF Includes(name, ".") THEN CHOOSE i \in 1..Len(name) :
                                /\ name[i] = "."
                                /\ \A j \in (i + 1)..Len(name) : name[j] # "."
  ELSE 0

ExtName(name) == IF LastDot(name) <= 1 THEN <<>> ELSE SubSeq(name, LastDot(name), Len(name))

\* path.extname(file.originalname).slice(1).toLowerCase()
InputExt(name) ==
  LET e == ExtName(name) IN ToLowerCase(IF e = <<>> THEN <<>> ELSE Tail(e))

\* A body field: present = FALSE stands for undefined.  a || b takes b when a
\* is undefined or the empty string.
NoField == [present |-> FALSE, text |-> <<>>]

Field(text) == [present |-> TRUE, text |-> text]

Truthy(f) == f.present /\ f.text # <<>>

\* (req.body.format || req.body.target || '').toLowerCase().trim()
TargetFormatOfMut(r) ==
  IF Truthy(r.format) THEN Trim(r.format.text)
  ELSE IF r.route = "convert" /\ Truthy(r.target) THEN Trim(r.target.text)
  ELSE <<>>

\* (the batch route reads req.body.format only)
TargetFormatOf(r) ==
  IF Truthy(r.format) THEN Trim(ToLowerCase(r.format.text))
  ELSE IF r.route = "convert" /\ Truthy(r.target) THEN Trim(ToLowerCase(r.target.text))
  ELSE <<>>

\* The if / else-if chain of POST /convert: the service function the route
\* calls for (inputExt, target), "none" for the final else.
DispatchMut(inputExt, target) ==
  IF target = Pdf THEN "officeToPdf"
  ELSE IF inputExt = Pdf /\ isOfficeFormat(target) THEN "pdfToOffice"
  ELSE IF inputExt = Pdf /\ isImageFormat(target) THEN "pdfToImages"
  ELSE IF isImageFormat(inputExt) /\ isImageFormat(target) THEN "convertImage"
  ELSE IF (isVideoFormat(inputExt) \/ isAudioFormat(inputExt))
            /\ (isVideoFormat(target) \/ isAudioFormat(target)) THEN "convertVideo"
  ELSE IF isEbookFormat(inputExt) /\ isEbookFormat(target) THEN "convertEbook"
  ELSE IF inputExt = Pdf /\ isEbookFormat(target) THEN "convertEbook"
  ELSE "none"

Dispatch(inputExt, target) ==
  IF isOfficeFormat(inputExt) /\ target = Pdf THEN "officeToPdf"
  ELSE IF inputExt = Pdf /\ isOfficeFormat(target) THEN "pdfToOffice"
  ELSE IF inputExt = Pdf /\ isImageFormat(target) THEN "pdfToImages"
  ELSE IF isImageFormat(inputExt) /\ target = Pdf THEN "imagesToPdf"
  ELSE IF isImageFormat(inputExt) /\ isImageFormat(target) THEN "convertImage"
  ELSE IF (isVideoFormat(inputExt) \/ isAudioFormat(inputExt))
            /\ (isVideoFormat(target) \/ isAudioFormat(target)) THEN "convertVideo"
  ELSE IF isEbookFormat(inputExt) /\ (target = Pdf \/ isEbookFormat(target))
    THEN "convertEbook"
  ELSE IF inputExt = Pdf /\ isEbookFormat(target) THEN "convertEbook"
  ELSE IF (inputExt = <<"h", "t", "m", "l">> \/ inputExt = <<"h", "t", "m">>) /\ target = Pdf
    THEN "htmlToPdf"
  ELSE IF inputExt = <<"m", "d">> /\ target = Pdf THEN "markdownToPdf"
  ELSE IF target = Pdf THEN "officeToPdf"
  ELSE "none"

\* the format argument the route hands to the service it calls (officeToPdf,
\* imagesToPdf, htmlToPdf and markdownToPdf take none, shown as <<>>)
PassedFormat(service, target) ==
  IF service = "pdfToImages"
    THEN (IF target = <<"j", "p", "g">> \/ target = <<"j", "p", "e", "g">>
            THEN <<"j", "p", "e", "g">> ELSE <<"p", "n", "g">>)
  ELSE IF service \in {"pdfToOffice", "convertImage", "convertVideo", "convertEbook"}
    THEN target
  ELSE <<>>

\* pdfToImages: const device = format === 'png' ? 'png16m' : 'jpeg'
GsDevice(format) == IF format = <<"p", "n", "g">> THEN "png16m" ELSE "jpeg"

\* the encoding of the images a Ghostscript device writes
DeviceEncoding(device) ==
  IF device = "png16m" THEN <<"p", "n", "g">> ELSE <<"j", "p", "e", "g">>

\* the encoding a file-name extension and its mimeMap entry announce
\* (jpg and jpeg both image/jpeg)
AnnouncedEncoding(ext) ==
  IF ext = <<"j", "p", "g">> THEN <<"j", "p", "e", "g">> ELSE ext

\* ========================================================================
\* Temp Workspace Manager (utils/tempfile.ts) and the Conversion Services
\* ========================================================================

\* The function body that runs for a service call: htmlToPdf and
\* markdownToPdf call officeToPdf (buffer, 'input.html'); convertImage hands
\* svg, bmp and ico to convertWithImageMagick and everything else to sharp.
BodyOf(service, format) ==
  IF service \in {"htmlToPdf", "markdownToPdf"} THEN "officeToPdf"
  ELSE IF service = "convertImage"
    THEN (IF format \in {<<"s", "v", "g">>, <<"b", "m", "p">>, <<"i", "c", "o">>}
            THEN "convertWithImageMagick" ELSE "sharp")
  ELSE service

\* the bodies that open with `const tmpDir = createTempDir(); try { ... }
\* finally { cleanupTempDir(tmpDir); }`
TempBodies == {"officeToPdf", "pdfToOffice", "convertEbook", "convertVideo",
               "pdfToImages", "convertWithImageMagick", "compressPdf", "repairPdf",
               "addPassword", "removePassword", "ocrImage", "ocrPdf"}

UsesTemp(b) == b \in TempBodies

\* the first await of a body
FirstPc(b) ==
  CASE b = "sharp" -> "sharp"
    [] b = "imagesToPdf" -> "sharp"
    [] b = "ocrImage" -> "tesseract"
    [] b = "ocrPdf" -> "ocrmypdf"
    [] OTHER -> "exec1"

\* What the service sees when an await settles.  kind: the promise of exec()
\* resolved / rejected by the timeout / rejected by a spawn error, or "lib"
\* for an in-process library call (sharp, Tesseract.js, pdf-lib) with ok =
\* FALSE when it threw; code: the exit code; outExists, sizeOk: the expected
\* output file exists and passes the size / header check; inputExists: the
\* input file is still there; pages: page images the rasterizer left.
MaxOcrPages == 2

SvcExitCodes == {0, 1, 3}

Settled(kind, code, outExists, sizeOk, inputExists, pages, ok) ==
  [kind |-> kind, code |-> code, outExists |-> outExists, sizeOk |-> sizeOk,
   inputExists |-> inputExists, pages |-> pages, ok |-> ok, text |-> "none"]

\* the text an OCR engine recognised on a page: none, text that the standard
\* font of pdf-lib can encode (WinAnsi), or text with a character it cannot
OcrTexts == {"latin", "other"}

Recognised(o) == {[o EXCEPT !.text = t] : t \in OcrTexts}

ExecOutcomes ==
  {Settled("resolved", c, e, z, i, p, TRUE) :
      c \in SvcExitCodes, e \in BOOLEAN, z \in BOOLEAN, i \in BOOLEAN, p \in 0..MaxOcrPages}
    \cup {Settled("timeout", 0, FALSE, FALSE, TRUE, 0, FALSE),
          Settled("spawnerr", 0, FALSE, FALSE, TRUE, 0, FALSE)}
    \cup Recognised(Settled("resolved", 0, TRUE, TRUE, TRUE, 0, TRUE))

LibOutcomes ==
  {Settled("lib", 0, TRUE, z, TRUE, 0, ok) : z \in BOOLEAN, ok \in BOOLEAN}
    \cup Recognised(Settled("lib", 0, TRUE, TRUE, TRUE, 0, TRUE))

\* what an await of ocrPdf gave: whether the tier succeeded, and the text of
\* the page for the two OCR engines
Gave(at, out) ==
  LET resolved == out.kind = "resolved"
  IN CASE at = "ocrmypdf" ->
            [at |-> at, ok |-> resolved /\ out.code = 0 /\ out.outExists, text |-> "none"]
       [] at = "gs" ->
            [at |-> at, ok |-> resolved /\ out.code = 0 /\ out.pages > 0, text |-> "none"]
       [] at = "tesseract" ->
            LET read == resolved /\ out.code = 0 /\ out.outExists
            IN [at |-> at, ok |-> read, text |-> IF read THEN out.text ELSE "none"]
       [] at = "tesseractjs" ->
            [at |-> at, ok |-> out.ok, text |-> IF out.ok THEN out.text ELSE "none"]
       [] OTHER -> [at |-> at, ok |-> out.ok, text |-> "none"]

\* ocrResults: the text of each page done, from the log of the awaits
RECURSIVE PageTexts(_)
PageTexts(log) ==
  IF log = <<>> THEN <<>>
  ELSE LET e == Head(log)
       IN IF (e.at = "tesseract" /\ e.text # "none") \/ e.at = "tesseractjs"
            THEN <<e.text>> \o PageTexts(Tail(log))
            ELSE PageTexts(Tail(log))

\* QPDF exit codes: 0 = success, 2 = error, 3 = warnings (but succeeded)
QpdfSucceededMut(code) == ~(code # 0)

QpdfSucceeded(code) == ~(code # 0 /\ code # 3)

\* The code of a body from the await at pc to its next await, return or throw
\* (file: the temp file whose content a return hands back).
Continue(b, at, out, left, log) ==
  LET RetFile(f) == [act |-> "return", pc |-> "", pages |-> left, file |-> f]
      Ret == RetFile("output")
      Thr == [act |-> "throw", pc |-> "", pages |-> left, file |-> "none"]
      Ex(l, n) == [act |-> "exec", pc |-> l, pages |-> n, file |-> "none"]
      Lib(l, n) == [act |-> "lib", pc |-> l, pages |-> n, file |-> "none"]
      resolved == out.kind = "resolved"
      qpdfOk == QpdfSucceeded(out.code)
      PageDone == IF left > 1 THEN Ex("tesseract", left - 1) ELSE Lib("rebuild", 0)
  IN
  CASE b \in {"officeToPdf", "pdfToOffice", "convertEbook", "convertVideo",
                 "convertWithImageMagick"} ->
         IF ~resolved \/ out.code # 0 \/ ~out.outExists \/ ~out.sizeOk THEN Thr ELSE Ret
    [] b = "pdfToImages" ->
         IF ~resolved \/ out.code # 0 \/ out.pages = 0 \/ ~out.sizeOk THEN Thr
         ELSE [Ret EXCEPT !.pages = out.pages]
    [] b = "compressPdf" ->
         IF ~resolved \/ out.code # 0 \/ ~out.outExists THEN Thr ELSE RetFile("output.pdf")
    [] b = "repairPdf" /\ at = "exec1" ->
         IF ~resolved THEN Thr
         ELSE IF out.inputExists THEN RetFile("input.pdf")
         ELSE Ex("exec2", left)
    [] b = "repairPdf" /\ at = "exec2" ->
         IF ~resolved \/ ~qpdfOk \/ ~out.outExists THEN Thr ELSE RetFile("output.pdf")
    [] b = "addPassword" /\ at = "exec1" ->
         IF ~resolved THEN Thr
         ELSE IF ~qpdfOk THEN Ex("alt", left)
         ELSE IF ~out.outExists THEN Thr ELSE RetFile("output.pdf")
    [] b = "addPassword" /\ at = "alt" ->
         IF ~resolved \/ ~qpdfOk \/ ~out.outExists THEN Thr ELSE RetFile("output.pdf")
    [] b = "removePassword" /\ at = "exec1" ->
         IF ~resolved THEN Thr
         ELSE IF ~qpdfOk THEN Ex("alt", left)
         ELSE IF ~out.outExists THEN Thr ELSE RetFile("output.pdf")
    [] b = "removePassword" /\ at = "alt" ->
         IF ~resolved \/ ~qpdfOk \/ ~out.inputExists THEN Thr ELSE RetFile("input.pdf")
    [] b = "ocrImage" /\ at = "tesseract" ->
         IF resolved /\ out.code = 0 /\ out.outExists THEN Ret ELSE Lib("tesseractjs", left)
    [] b = "ocrImage" /\ at = "tesseractjs" ->
         IF out.ok THEN Ret ELSE Thr
    [] b = "ocrPdf" /\ at = "ocrmypdf" ->
         IF resolved /\ out.code = 0 /\ out.outExists THEN Ret ELSE Ex("gs", left)
    [] b = "ocrPdf" /\ at = "gs" ->
         IF ~resolved \/ out.code # 0 \/ out.pages = 0 THEN Thr
         ELSE Ex("tesseract", out.pages)
    [] b = "ocrPdf" /\ at = "tesseract" ->
         IF Gave(at, out).text # "none" THEN PageDone ELSE Lib("tesseractjs", left)
    [] b = "ocrPdf" /\ at = "tesseractjs" -> PageDone
    \* page.drawText throws on a character the standard font cannot encode,
    \* on the original document and again on the text-only document of the
    \* catch block; nothing is drawn for a page without text
    [] b = "ocrPdf" /\ at = "rebuild" ->
         IF \E k \in 1..Len(PageTexts(log)) : PageTexts(log)[k] = "other" THEN Thr ELSE Ret
    [] b = "sharp" -> IF out.ok /\ out.sizeOk THEN Ret ELSE Thr
    [] b = "imagesToPdf" -> IF out.ok THEN Ret ELSE Thr
    [] OTHER -> Thr

\* ------------------------------------------------------------------------
\* Error messages.  A message is the set of things its text contains: the
\* substrings the catch block of POST /convert looks for, and the internals
\* a message can carry (a path inside the temp base, a PDF password, the
\* stderr of a tool).
\* ------------------------------------------------------------------------
WorkspacePath == "workspace path"

Password == "password"

Stderr == "stderr"

\* config.bins.*: the tool a body runs at an await
ToolOf(b, at) ==
  CASE b \in {"officeToPdf", "pdfToOffice"} -> "libreoffice"
    [] b = "convertEbook" -> "calibre"
    [] b = "convertVideo" -> "ffmpeg"
    [] b \in {"pdfToImages", "compressPdf"} -> "ghostscript"
    [] b = "convertWithImageMagick" -> "imagemagick"
    [] b \in {"repairPdf", "addPassword", "removePassword"} -> "qpdf"
    [] b = "ocrPdf" /\ at = "ocrmypdf" -> "ocrmypdf"
    [] b = "ocrPdf" /\ at = "gs" -> "ghostscript"
    [] OTHER -> "tesseract"

\* what the command name findBin falls back to contains: soffice, ffmpeg,
\* gswin64c, tesseract, qpdf, ebook-convert, magick
CommandText(tool) ==
  CASE tool = "ffmpeg" -> {"ffmpeg"}
    [] tool = "ghostscript" -> {"gs"}
    [] OTHER -> {}

\* the error of the 'error' event: `spawn <command> ENOENT`
SpawnMessage(tool) == {"spawn", "ENOENT"} \cup CommandText(tool)

\* `Command timed out after ${timeoutMs}ms: ${command} ${args.join(' ')}`:
\* every body passes paths inside its workspace as arguments, the password
\* bodies pass the password
TimeoutMessage(b, tool) ==
  CommandText(tool) \cup {WorkspacePath}
    \cup (IF b \in {"addPassword", "removePassword"} THEN {Password} ELSE {})

\* the errors of fs.mkdirSync, fs.writeFileSync, fs.readFileSync name the path
FsMessage == {WorkspacePath}

\* the `throw new Error(...)` of a body whose tool ran to its end
ServiceMessage(b, at, out) ==
  CASE b = "officeToPdf" ->
         IF out.code # 0 \/ ~out.outExists THEN {"LibreOffice", Stderr} ELSE {"LibreOffice"}
    [] b = "pdfToOffice" -> IF out.code # 0 THEN {"LibreOffice", Stderr} ELSE {}
    [] b = "convertEbook" ->
         IF out.code # 0 THEN {"Calibre", Stderr} ELSE {"Calibre"}
    [] b = "convertVideo" ->
         IF out.code # 0 THEN {"FFmpeg", Stderr} ELSE {"FFmpeg"}
    [] b = "pdfToImages" ->
         IF out.code # 0 THEN {Stderr}
         ELSE IF out.pages = 0 THEN {"Ghostscript"} ELSE {}
    [] b = "convertWithImageMagick" -> IF out.code # 0 THEN {Stderr} ELSE {}
    [] b = "compressPdf" -> {"Ghostscript", Stderr}
    [] b = "repairPdf" ->
         IF out.code # 0 /\ out.code # 3 THEN {Stderr} ELSE FsMessage
    [] b = "addPassword" ->
         IF out.code # 0 /\ out.code # 3 THEN {Stderr} ELSE {}
    [] b = "removePassword" ->
         IF out.code # 0 /\ out.code # 3 THEN {Stderr}
         ELSE IF at = "alt" THEN FsMessage ELSE {}
    [] b = "ocrPdf" /\ at = "gs" ->
         IF out.code # 0 THEN {"Ghostscript", Stderr} ELSE {"Ghostscript"}
    [] OTHER -> {}

\* the kind of failure a throw after the await at `at` comes from
CauseOf(out) ==
  CASE out.kind = "spawnerr" -> "spawn"
    [] out.kind = "timeout" -> "timeout"
    [] out.kind = "lib" -> "library"
    [] OTHER -> "tool"

\* err.message of that throw
ErrorMessage(b, at, out) ==
  CASE out.kind = "spawnerr" -> SpawnMessage(ToolOf(b, at))
    [] out.kind = "timeout" -> TimeoutMessage(b, ToolOf(b, at))
    [] out.kind = "lib" -> {}
    [] OTHER -> ServiceMessage(b, at, out)

\* the hint the catch block of POST /convert appends to the message
ConvertHint(msg) ==
  IF "LibreOffice" \in msg \/ "libreoffice" \in msg THEN "libreoffice"
  ELSE IF "ffmpeg" \in msg \/ "FFmpeg" \in msg THEN "ffmpeg"
  ELSE IF "Ghostscript" \in msg \/ "gs" \in msg THEN "ghostscript"
  ELSE IF "Calibre" \in msg \/ "calibre" \in msg THEN "calibre"
  ELSE IF "ENOENT" \in msg \/ "spawn" \in msg THEN "tool not found in PATH"
  ELSE "none"

\* the other routes answer { error: err.message }
HintOf(route, msg) == IF route = "convert" THEN ConvertHint(msg) ELSE "none"

\* what the file system does to the synchronous calls of a step:
\* mkdirOk - fs.mkdirSync in createTempDir succeeds; writeOk - writeTempFile
\* succeeds; rmOk - fs.rmSync in cleanupTempDir succeeds (a failure is
\* swallowed by its catch); zipFlushed - the archiver has written the
\* entries appended so far to the response
FsOutcomes == [mkdirOk : BOOLEAN, writeOk : BOOLEAN, rmOk : BOOLEAN, zipFlushed : BOOLEAN]

\* ------------------------------------------------------------------------
\* One request through the convert, pdf and ocr routes.  The state of the
\* request as a record, so that the code between two awaits composes:
\* ------------------------------------------------------------------------
St == [phase |-> phase, targetFormat |-> targetFormat, invoked |-> invoked,
       passed |-> passed, body |-> body, pc |-> pc, await |-> await,
       pagesLeft |-> pagesLeft, created |-> created, workspaces |-> workspaces,
       cleanups |-> cleanups, rmFailed |-> rmFailed, spawned |-> spawned,
       result |-> result, res |-> res, filesLeft |-> filesLeft,
       cause |-> cause, errMessage |-> errMessage, errHint |-> errHint,
       headersSent |-> headersSent, lateResponse |-> lateResponse,
       qpdfRuns |-> qpdfRuns, returned |-> returned, ocrLog |-> ocrLog,
       lastRun |-> lastRun]

Put(n) ==
  /\ phase' = n.phase
  /\ targetFormat' = n.targetFormat
  /\ invoked' = n.invoked
  /\ passed' = n.passed
  /\ body' = n.body
  /\ pc' = n.pc
  /\ await' = n.await
  /\ pagesLeft' = n.pagesLeft
  /\ created' = n.created
  /\ workspaces' = n.workspaces
  /\ cleanups' = n.cleanups
  /\ rmFailed' = n.rmFailed
  /\ spawned' = n.spawned
  /\ result' = n.result
  /\ res' = n.res
  /\ filesLeft' = n.filesLeft
  /\ cause' = n.cause
  /\ errMessage' = n.errMessage
  /\ errHint' = n.errHint
  /\ headersSent' = n.headersSent
  /\ lateResponse' = n.lateResponse
  /\ qpdfRuns' = n.qpdfRuns
  /\ returned' = n.returned
  /\ ocrLog' = n.ocrLog
  /\ lastRun' = n.lastRun

NoRes == [status |-> 0, type |-> "none", error |-> FALSE, supported |-> FALSE,
          complete |-> FALSE]

\* res.status(code).json({ error })
ErrorJson(code) == [status |-> code, type |-> "json", error |-> TRUE,
                    supported |-> FALSE, complete |-> TRUE]

\* res.status(400).json({ error, supported: getSupportedConversions() })
UnsupportedJsonMut == [status |-> 500, type |-> "json", error |-> TRUE,
                       supported |-> FALSE, complete |-> TRUE]

UnsupportedJson == [status |-> 400, type |-> "json", error |-> TRUE,
                    supported |-> TRUE, complete |-> TRUE]

\* res.set({...}); res.send(result)
FileSent == [status |-> 200, type |-> "file", error |-> FALSE, supported |-> FALSE,
             complete |-> TRUE]

\* res.set({'Content-Type': 'application/zip', ...}); archive.pipe(res)
ZipStarted == [status |-> 200, type |-> "zip", error |-> FALSE, supported |-> FALSE,
               complete |-> FALSE]

\* res.json / res.send: once the headers of a response are out, Express
\* throws ERR_HTTP_HEADERS_SENT and what the client has received stays
Respond(s, r) ==
  IF s.headersSent THEN [s EXCEPT !.phase = "done", !.pagesLeft = 0, !.lateResponse = TRUE]
  ELSE [s EXCEPT !.phase = "done", !.pagesLeft = 0, !.res = r, !.headersSent = TRUE]

\* the catch block of a route: res.status(500).json({ error: message + hint })
RespondError(s, r, why, msg) ==
  Respond([s EXCEPT !.cause = why,
                    !.errMessage = IF s.headersSent THEN @ ELSE msg,
                    !.errHint = IF s.headersSent THEN @ ELSE HintOf(r.route, msg)],
          ErrorJson(500))

\* await archive.finalize(): the zip is complete on the wire
ZipFinalized(s) ==
  [s EXCEPT !.phase = "done", !.pagesLeft = 0, !.filesLeft = 0, !.headersSent = TRUE,
            !.res = [ZipStarted EXCEPT !.complete = TRUE]]

\* await exec(...): a child process is spawned
StartExec(s, label, pages) ==
  [s EXCEPT !.pc = label, !.await = "exec", !.spawned = @ + 1, !.pagesLeft = pages,
            !.phase = "await"]

\* await of an in-process library call
StartLib(s, label, pages) ==
  [s EXCEPT !.pc = label, !.await = "lib", !.pagesLeft = pages, !.phase = "await"]

\* createTempDir(): a fresh directory under the temp base
CreateTempDir(s) ==
  [s EXCEPT !.created = @ + 1, !.workspaces = @ \cup {s.created + 1}]

\* cleanupTempDir(dir): fs.rmSync, a failure swallowed
CleanupTempDir(s, dir, rmOk) ==
  [s EXCEPT !.cleanups = @ + 1,
            !.workspaces = IF rmOk THEN @ \ {dir} ELSE @,
            !.rmFailed = @ \/ ~rmOk]

\* whether the body's exit, by return or throw, passes through its finally
RunsCleanupMut(b, how) == UsesTemp(b) /\ how = "returned"

RunsCleanup(b, how) == UsesTemp(b)

\* the services that take a target format argument
FormatServices == {"pdfToOffice", "pdfToImages", "convertImage", "convertVideo",
                   "convertEbook"}

\* how a service call ends: by return (of a temp file's content) or by a
\* throw with its cause and message
Returns(file) == [how |-> "returned", file |-> file, why |-> "none", msg |-> {}]

Throws(why, msg) == [how |-> "threw", file |-> "none", why |-> why, msg |-> msg]

RECURSIVE EnterService(_, _, _, _, _)
RECURSIVE RouteContinue(_, _, _, _)

\* the body ends (return or throw): its finally, then the awaiting route
LeaveService(s, r, end, fs) ==
  LET cleaned == IF RunsCleanup(s.body, end.how)
                   THEN CleanupTempDir(s, s.created, fs.rmOk) ELSE s
  IN  RouteContinue([cleaned EXCEPT !.body = "", !.pc = "", !.await = "none",
                                    !.result = end.how, !.returned = end.file],
                    r, end, fs)

\* the route after `await service(...)`: the success path or the catch
RouteContinue(s, r, end, fs) ==
  IF r.route = "batch"
    THEN IF end.how = "threw"
           THEN RespondError(s, r, end.why, end.msg)
         ELSE IF s.filesLeft > 1
           THEN EnterService([s EXCEPT !.filesLeft = @ - 1, !.pagesLeft = 0], r,
                             "convertImage", s.targetFormat, fs)
         ELSE ZipFinalized(s)
  ELSE IF end.how = "threw" THEN RespondError(s, r, end.why, end.msg)
  ELSE IF r.route = "convert" /\ s.invoked = <<"pdfToImages">> /\ s.pagesLeft # 1
    THEN ZipFinalized(s)
  ELSE Respond(s, FileSent)

\* the route calls a service: the body runs up to its first await
EnterService(s, r, service, format, fs) ==
  LET b  == BodyOf(service, format)
      s1 == [s EXCEPT !.invoked = Append(@, service),
                      !.passed = IF service \in FormatServices THEN Append(@, format) ELSE @,
                      !.body = b, !.result = "none", !.returned = "none"]
  IN  IF ~UsesTemp(b) THEN StartLib(s1, FirstPc(b), 0)
      ELSE IF ~fs.mkdirOk
        THEN RouteContinue([s1 EXCEPT !.body = "", !.result = "threw"],
                           r, Throws("fs", FsMessage), fs)
      ELSE LET s2 == CreateTempDir(s1) IN
           IF b = "ocrImage" /\ r.pdfMagic THEN LeaveService(s2, r, Throws("input", {}), fs)
           ELSE IF ~fs.writeOk THEN LeaveService(s2, r, Throws("fs", FsMessage), fs)
           ELSE StartExec(s2, FirstPc(b), 0)

\* POST /api/convert, up to the first await
ConvertHandler(s, r, fs) ==
  IF ~r.hasFile THEN Respond(s, ErrorJson(400))
  ELSE LET tf == TargetFormatOf(r) IN
    IF tf = <<>> THEN Respond(s, ErrorJson(400))
    ELSE LET service == Dispatch(InputExt(r.name), tf)
             s1 == [s EXCEPT !.targetFormat = tf]
         IN  IF service = "none" THEN Respond(s1, UnsupportedJson)
             ELSE EnterService(s1, r, service, PassedFormat(service, tf), fs)

\* POST /api/convert/batch, up to the first await
BatchHandler(s, r, fs) ==
  IF r.nFiles = 0 THEN Respond(s, ErrorJson(400))
  ELSE LET tf == TargetFormatOf(r) IN
    IF tf = <<>> THEN Respond(s, ErrorJson(400))
    ELSE EnterService([s EXCEPT !.targetFormat = tf, !.res = ZipStarted,
                                !.filesLeft = r.nFiles],
                      r, "convertImage", tf, fs)

\* POST /api/pdf/{compress,repair,add-password,remove-password} and
\* POST /api/ocr/{image,pdf}, up to the first await
ServiceOfRoute(route) ==
  CASE route = "compress" -> "compressPdf"
    [] route = "repair" -> "repairPdf"
    [] route = "add-password" -> "addPassword"
    [] route = "remove-password" -> "removePassword"
    [] route = "ocr-image" -> "ocrImage"
    [] route = "ocr-pdf" -> "ocrPdf"
    [] OTHER -> "none"

ToolRoutes == {"compress", "repair", "add-password", "remove-password",
               "ocr-image", "ocr-pdf"}

ToolHandler(s, r, fs) ==
  IF ~r.hasFile THEN Respond(s, ErrorJson(400))
  ELSE IF r.route \in {"add-password", "remove-password"} /\ ~r.hasPassword
    THEN Respond(s, ErrorJson(400))
  ELSE EnterService(s, r, ServiceOfRoute(r.route), <<>>, fs)

\* the qpdf invocations of addPassword / removePassword, as they settle
QpdfRun(at, out) ==
  [args |-> IF at = "exec1" THEN "primary" ELSE "alternate", kind |-> out.kind,
   code |-> out.code, outputExists |-> out.outExists, inputExists |-> out.inputExists]

\* what a body saw when an await settled
Run(b, at, out) == [body |-> b, at |-> at, out |-> out]

NoRun == Run("", "", Settled("none", 0, FALSE, FALSE, FALSE, 0, FALSE))

\* an awaited promise settles: the body continues to its next await or ends
AfterSettle(s0, r, out, fs) ==
  LET c == Continue(s0.body, s0.pc, out, s0.pagesLeft, s0.ocrLog)
      \* while the body was suspended, the archiver may have written the
      \* files appended so far, and with them the headers, to the response
      s1 == IF r.route = "batch" /\ r.nFiles > s0.filesLeft /\ fs.zipFlushed
              THEN [s0 EXCEPT !.headersSent = TRUE] ELSE s0
      s2 == [s1 EXCEPT !.lastRun = Run(s0.body, s0.pc, out),
                       !.ocrLog = IF s0.body = "ocrPdf" THEN Append(@, Gave(s0.pc, out))
                                  ELSE @]
      s == IF s0.body \in {"addPassword", "removePassword"}
             THEN [s2 EXCEPT !.qpdfRuns = Append(@, QpdfRun(s0.pc, out))] ELSE s2
  IN
    CASE c.act = "exec" -> StartExec(s, c.pc, c.pages)
      [] c.act = "lib" -> StartLib(s, c.pc, c.pages)
      [] c.act = "return" ->
           LeaveService([s EXCEPT !.pagesLeft = c.pages], r, Returns(c.file), fs)
      [] OTHER ->
           LeaveService(s, r, Throws(CauseOf(out), ErrorMessage(s.body, s.pc, out)), fs)

\* a request: the route, the uploaded file (name, PDF magic bytes), the body
\* fields format / targetFormat / password, the number of uploaded files
ConvReq(route, hasFile, name, format, target, nFiles, hasPassword, pdfMagic) ==
  [route |-> route, hasFile |-> hasFile, name |-> name, format |-> format,
   target |-> target, nFiles |-> nFiles, hasPassword |-> hasPassword,
   pdfMagic |-> pdfMagic]

NoConvReq == ConvReq("none", FALSE, <<>>, NoField, NoField, 0, FALSE, FALSE)

\* the request state before anything has run
Fresh ==
  /\ targetFormat = <<>>
  /\ invoked = <<>>
  /\ passed = <<>>
  /\ body = ""
  /\ pc = ""
  /\ await = "none"
  /\ pagesLeft = 0
  /\ created = 0
  /\ workspaces = {}
  /\ cleanups = 0
  /\ rmFailed = FALSE
  /\ spawned = 0
  /\ result = "none"
  /\ res = NoRes
  /\ filesLeft = 0
  /\ cause = "none"
  /\ errMessage = {}
  /\ errHint = "none"
  /\ headersSent = FALSE
  /\ lateResponse = FALSE
  /\ qpdfRuns = <<>>
  /\ returned = "none"
  /\ ocrLog = <<>>
  /\ lastRun = NoRun

ConvIdle ==
  /\ req = NoConvReq
  /\ phase = "idle"
  /\ Fresh

ConvertRoute ==
  /\ phase = "received"
  /\ req.route = "convert"
  /\ \E fs \in FsOutcomes : Put(ConvertHandler(St, req, fs))
  /\ UNCHANGED req
  /\ ConvOnly

BatchRoute ==
  /\ phase = "received"
  /\ req.route = "batch"
  /\ \E fs \in FsOutcomes : Put(BatchHandler(St, req, fs))
  /\ UNCHANGED req
  /\ ConvOnly

ToolRoute ==
  /\ phase = "received"
  /\ req.route \in ToolRoutes
  /\ \E fs \in FsOutcomes : Put(ToolHandler(St, req, fs))
  /\ UNCHANGED req
  /\ ConvOnly

\* the promise of exec() settles (see SpecExec for how)
ExecSettles ==
  /\ phase = "await"
  /\ await = "exec"
  /\ \E out \in ExecOutcomes, fs \in FsOutcomes : Put(AfterSettle(St, req, out, fs))
  /\ UNCHANGED req
  /\ ConvOnly

\* an in-process library call settles
LibSettles ==
  /\ phase = "await"
  /\ await = "lib"
  /\ \E out \in LibOutcomes, fs \in FsOutcomes : Put(AfterSettle(St, req, out, fs))
  /\ UNCHANGED req
  /\ ConvOnly

ConvNext ==
  \/ ConvertRoute
  \/ BatchRoute
  \/ ToolRoute
  \/ ExecSettles
  \/ LibSettles

\* ------------------------------------------------------------------------
\* The requests explored
\* ------------------------------------------------------------------------
MaxBatch == 2

\* every token one of the classifier or formats lists knows, and three
\* they do not
Tokens ==
  OFFICE_EXTENSIONS \cup EBOOK_EXTENSIONS \cup VIDEO_EXTENSIONS \cup AUDIO_EXTENSIONS
    \cup IMAGE_FORMATS \cup DocumentsToPdf \cup DocumentsFromPdf \cup ImagesFormats
    \cup VideoFormats \cup AudioFormats \cup EbooksFormats
    \cup {Pdf, <<"m", "d">>, <<"x", "y", "z">>}

\* uploaded file names: f.<token>, and names with an upper-case, missing,
\* empty or leading-dot extension
FileNames ==
  {<<"f", ".">> \o t : t \in Tokens}
    \cup {<<"f">>, <<"f", ".">>, <<".", "p", "d", "f">>,
          <<"F", ".", "P", "D", "F">>, <<"f", ".", "D", "o", "c", "x">>,
          <<"a", ".", "b", ".", "p", "n", "g">>}

\* values of the format field: the tokens, and values that need trimming or
\* lower-casing or are blank
OddFormats ==
  {<<>>, <<" ">>, <<" ", " ">>, <<"P", "D", "F">>, <<"D", "O", "C", "X">>,
   <<" ", "p", "d", "f", " ">>, <<" ", "P", "n", "g">>, <<".", "d", "o", "c", "x">>,
   <<"M", "p", "3", " ">>, <<"E", "P", "U", "B">>}

FormatFields == {NoField} \cup {Field(t) : t \in Tokens \cup OddFormats}

TargetFields == {NoField, Field(<<>>), Field(<<" ">>), Field(Pdf),
                 Field(<<"M", "P", "4">>), Field(<<"x", "y", "z">>)}

BlankNames == {<<"f", ".", "d", "o", "c", "x">>, <<"f", ".", "p", "n", "g">>,
               <<"f", ".", "m", "p", "3">>, <<"f", ".", "p", "d", "f">>}

ConvertRequests ==
  {ConvReq("convert", TRUE, n, f, NoField, 1, FALSE, FALSE) :
      n \in FileNames, f \in FormatFields}
    \cup {ConvReq("convert", TRUE, n, f, t, 1, FALSE, FALSE) :
            n \in BlankNames,
            f \in {NoField, Field(<<>>), Field(<<" ">>), Field(<<"p", "n", "g">>)},
            t \in TargetFields}
    \cup {ConvReq("convert", FALSE, <<>>, f, NoField, 0, FALSE, FALSE) :
            f \in {NoField, Field(Pdf)}}

BatchFormats ==
  {NoField, Field(<<>>), Field(<<" ">>), Field(<<"p", "n", "g">>),
   Field(<<"P", "N", "G">>), Field(<<" ", "w", "e", "b", "p">>),
   Field(<<"b", "m", "p">>), Field(<<"I", "c", "o", " ">>), Field(<<"s", "v", "g">>),
   Field(<<"x", "y", "z">>)}

BatchRequests ==
  {ConvReq("batch", n > 0, <<"f", ".", "p", "n", "g">>, f, t, n, FALSE, FALSE) :
      n \in 0..MaxBatch, f \in BatchFormats, t \in {NoField, Field(<<"p", "n", "g">>)}}

ToolRequests ==
  {ConvReq(route, h, <<"f", ".", "p", "d", "f">>, NoField, NoField,
           IF h THEN 1 ELSE 0, p, m) :
      route \in ToolRoutes, h \in BOOLEAN, p \in BOOLEAN, m \in BOOLEAN}

Requests == ConvertRequests \cup BatchRequests \cup ToolRequests

\* ========================================================================
\* Page operations of pdf.service.ts: extractPages, removePages, rotatePdf,
\* and the rotate route.  A page is its content and its /Rotate angle.
\* ========================================================================
Page(c, r) == [content |-> c, rotation |-> r]

\* what an async service function gives its caller
Ok(doc) == [threw |-> FALSE, doc |-> doc]

Threw == [threw |-> TRUE, doc |-> <<>>]

\* an optional array argument (pages?: number[])
NoPages == [given |-> FALSE, list |-> <<>>]

Pages(list) == [given |-> TRUE, list |-> list]

\* extractPages(buffer, pages): copyPages reads srcPages[p - 1].node, which
\* throws a TypeError when p - 1 is not an index of the source
extractPages(src, pages) ==
  IF \E k \in 1..Len(pages) : pages[k] - 1 \notin 0..(Len(src) - 1) THEN Threw
  ELSE Ok(CopyPages(src, pages))

\* removePages(buffer, pagesToRemove)
removePagesMut(src, pagesToRemove) ==
  LET total == Len(src)
      keep  == SelectSeq([i \in 1..total |-> i],
                         LAMBDA p : p \notin Range(pagesToRemove) /\ p < total)
  IN  extractPages(src, keep)

removePages(src, pagesToRemove) ==
  LET total == Len(src)
      keep  == SelectSeq([i \in 1..total |-> i], LAMBDA p : p \notin Range(pagesToRemove))
  IN  extractPages(src, keep)

\* for (const p of targets) page.setRotation(degrees(current + angle))
RECURSIVE RotateEach(_, _, _)
RotateEach(doc, targets, angle) ==
  IF targets = <<>> THEN doc
  ELSE RotateEach([doc EXCEPT ![Head(targets)].rotation = @ + angle], Tail(targets), angle)

\* rotatePdf(buffer, angle, pages?): doc.getPage(p - 1) throws when p - 1 is
\* not an index of the document
rotatePdf(src, angle, pages) ==
  LET targets == IF pages.given THEN pages.list ELSE [i \in 1..Len(src) |-> i]
  IN  IF \E k \in 1..Len(targets) : targets[k] - 1 \notin 0..(Len(src) - 1) THEN Threw
      ELSE Ok(RotateEach(src, targets, angle))

\* parseInt(text): leading blanks skipped, an optional sign, then the longest
\* prefix of decimal digits; NaN when there is none (or the field is absent)
RECURSIVE DigitPrefix(_)
DigitPrefix(s) ==
  IF s # <<>> /\ IsDigit(Head(s)) THEN <<Head(s)>> \o DigitPrefix(Tail(s)) ELSE <<>>

parseInt(f) ==
  IF ~f.present THEN NaN
  ELSE LET t  == TrimLeft(f.text)
           u  == IF t # <<>> /\ Head(t) \in {"-", "+"} THEN Tail(t) ELSE t
           ds == DigitPrefix(u)
       IN  IF ds = <<>> THEN NaN
           ELSE IF Head(t) = "-" THEN Num(0 - DigitsValue(ds, 0))
           ELSE Num(DigitsValue(ds, 0))

\* const angle = parseInt(req.body.angle) || 90
RouteAngle(f) ==
  LET n == parseInt(f) IN IF n.nan \/ n.val = 0 THEN 90 ELSE n.val

\* POST /api/pdf/rotate for an uploaded PDF that loads
RotateHandler(src, angleField, pages) == rotatePdf(src, RouteAngle(angleField), pages)

\* ------------------------------------------------------------------------
\* The client: what it holds and what it has applied
\* ------------------------------------------------------------------------
MaxOps == 2

Rotations == {0, 90}

PgSingles == {<<Page(c, r)>> : c \in PageContents, r \in Rotations}

PgDocs == PgSingles \cup {<<Page("A", 0), Page("B", 90)>>, <<Page("B", 0), Page("B", 0)>>}

\* rotation angles pdf-lib accepts are the multiples of 90
Angles == {90, 180, 0 - 90}

AngleFields ==
  {NoField, Field(<<"9", "0">>), Field(<<"0">>), Field(<<"-", "9", "0">>),
   Field(<<"1", "8", "0">>), Field(<<"x">>)}

RotateTargets == {NoPages, Pages(<<1>>), Pages(<<2>>), Pages(<<1, 1>>), Pages(<<3>>)}

RouteTargets == {NoPages, Pages(<<1>>)}

PageLists == {<<1>>, <<2>>, <<2, 1>>, <<1, 5>>, <<0>>, <<5>>, <<0, 1, 2>>}

SplitTexts == {<<"1", ";", "2">>, <<"2", ";", "1">>, <<"1">>, <<"1", "-", "2">>}

NoArgs == [angle |-> 0, field |-> NoField, pages |-> NoPages, ranges |-> <<>>]

Entry(op, args, before, out) ==
  [op |-> op, args |-> args, before |-> before, threw |-> out.threw, after |-> out.doc]

LastOp == IF pgLog = <<>> THEN "none" ELSE pgLog[Len(pgLog)].op

\* the result replaces the document the client holds, unless the call threw
Apply(op, args, out) ==
  /\ pgLog' = Append(pgLog, Entry(op, args, pgDoc, out))
  /\ pgDoc' = IF out.threw THEN pgDoc ELSE out.doc
  /\ UNCHANGED pgFiles

PgIdle ==
  /\ pgFiles = <<>>
  /\ pgDoc = <<>>
  /\ pgLog = <<>>
  /\ pgParts = <<>>

\* mergePdfs(buffers) on the buffers the client holds
PgMerge ==
  /\ pgLog = <<>>
  /\ Apply("merge", NoArgs, Ok(mergePdfs(pgFiles)))
  /\ UNCHANGED pgParts
  /\ PgOnly

\* splitPdf(buffer, ranges), on the held document or on a merge result
PgSplit(ranges) ==
  /\ LastOp \in {"none", "merge"}
  /\ Len(pgLog) < MaxOps
  /\ pgLog' = Append(pgLog, Entry("split", [NoArgs EXCEPT !.ranges = ranges], pgDoc, Ok(pgDoc)))
  /\ pgParts' = splitPdf(pgDoc, ranges)
  /\ UNCHANGED <<pgFiles, pgDoc>>
  /\ PgOnly

\* rotatePdf(buffer, angle, pages), possibly on the result of a rotation
PgRotate(angle, pages) ==
  /\ LastOp \in {"none", "rotate"}
  /\ Len(pgLog) < MaxOps
  /\ Apply("rotate", [NoArgs EXCEPT !.angle = angle, !.pages = pages],
           rotatePdf(pgDoc, angle, pages))
  /\ UNCHANGED pgParts
  /\ PgOnly

\* POST /api/pdf/rotate, possibly on the result of a rotation
PgRotateRoute(field, pages) ==
  /\ LastOp \in {"none", "rotate", "rotate-route"}
  /\ Len(pgLog) < MaxOps
  /\ Apply("rotate-route", [NoArgs EXCEPT !.field = field, !.pages = pages],
           RotateHandler(pgDoc, field, pages))
  /\ UNCHANGED pgParts
  /\ PgOnly

\* extractPages(buffer, pages)
PgExtract(pages) ==
  /\ pgLog = <<>>
  /\ Apply("extract", [NoArgs EXCEPT !.pages = Pages(pages)], extractPages(pgDoc, pages))
  /\ UNCHANGED pgParts
  /\ PgOnly

\* removePages(buffer, pagesToRemove)
PgRemove(pages) ==
  /\ pgLog = <<>>
  /\ Apply("remove", [NoArgs EXCEPT !.pages = Pages(pages)], removePages(pgDoc, pages))
  /\ UNCHANGED pgParts
  /\ PgOnly

\* ---- POST /api/pdf/remove-pages ----
\* a JSON integer: an optional minus sign, then 0 or digits not starting with 0
IsJsonInt(s) ==
  LET u == IF s # <<>> /\ Head(s) = "-" THEN Tail(s) ELSE s
  IN /\ u # <<>>
     /\ \A i \in 1..Len(u) : IsDigit(u[i])
     /\ (Len(u) > 1 => Head(u) # "0")

JsonInt(s) == IF Head(s) = "-" THEN 0 - DigitsValue(Tail(s), 0) ELSE DigitsValue(s, 0)

JsonThrows == [kind |-> "throws", list |-> <<>>]

\* JSON.parse(raw) for texts made of digits, signs, commas, brackets, blanks
\* and letters: a number, an array of numbers, null, or a SyntaxError
JsonParse(raw) ==
  LET t == Trim(raw)
  IN IF t = <<"n", "u", "l", "l">> THEN [kind |-> "null", list |-> <<>>]
     ELSE IF IsJsonInt(t) THEN [kind |-> "number", list |-> <<JsonInt(t)>>]
     ELSE IF Len(t) >= 2 /\ Head(t) = "[" /\ t[Len(t)] = "]"
       THEN LET inner == Trim(SubSeq(t, 2, Len(t) - 1))
                items == Split(inner, ",")
            IN IF inner = <<>> THEN [kind |-> "array", list |-> <<>>]
               ELSE IF \A k \in 1..Len(items) : IsJsonInt(Trim(items[k]))
                 THEN [kind |-> "array",
                       list |-> [k \in 1..Len(items) |-> JsonInt(Trim(items[k]))]]
               ELSE JsonThrows
     ELSE JsonThrows

\* raw.split(',').map(s => parseInt(s.trim(), 10)).filter(n => !isNaN(n) && n >= 1)
CommaPages(raw) ==
  LET items == Split(raw, ",")
      nums  == [k \in 1..Len(items) |-> parseInt(Field(Trim(items[k])))]
      kept  == SelectSeq(nums, LAMBDA n : ~n.nan /\ n.val >= 1)
  IN [k \in 1..Len(kept) |-> kept[k].val]

Answer(status, threw, doc, reached, array, list) ==
  [status |-> status, threw |-> threw, doc |-> doc,
   called |-> reached, array |-> array, list |-> list]

\* the handler for an uploaded PDF that loads: the status answered, the
\* document sent, and what removePages was called with
RemovePagesHandler(src, field) ==
  LET raw == IF Truthy(field) THEN field.text ELSE <<>>
      j   == JsonParse(raw)
  IN CASE j.kind = "null" ->
            \* null.length: TypeError, caught by the route
            Answer(500, TRUE, <<>>, FALSE, FALSE, <<>>)
       [] j.kind = "number" ->
            \* (3).length is undefined, not 0; pagesToRemove.includes is not a
            \* function, so removePages throws on the first page it filters
            IF Len(src) > 0 THEN Answer(500, TRUE, <<>>, TRUE, FALSE, j.list)
            ELSE Answer(200, FALSE, <<>>, TRUE, FALSE, j.list)
       [] OTHER ->
            LET pages == IF j.kind = "array" THEN j.list ELSE CommaPages(raw)
                out   == removePages(src, pages)
            IN IF Len(pages) = 0 THEN Answer(400, FALSE, <<>>, FALSE, TRUE, <<>>)
               ELSE IF out.threw THEN Answer(500, TRUE, <<>>, TRUE, TRUE, pages)
               ELSE Answer(200, FALSE, out.doc, TRUE, TRUE, pages)

\* the pages field as the browser client and other clients send it
PagesFields ==
  {NoField, Field(<<>>), Field(<<"3">>), Field(<<"1">>), Field(<<"2">>),
   Field(<<"1", ",", "2">>), Field(<<"[", "1", ",", "2", "]">>),
   Field(<<"[", "2", "]">>), Field(<<"[", "]">>), Field(<<"2", ",", " ", "1">>),
   Field(<<"x">>), Field(<<"n", "u", "l", "l">>), Field(<<"0", "1">>),
   Field(<<"1", ",", "x">>), Field(<<"[", "5", "]">>), Field(<<"5", ",", "1">>)}

\* POST /api/pdf/remove-pages with the held document as the upload
PgRemoveRoute(field) ==
  /\ pgLog = <<>>
  /\ LET out == RemovePagesHandler(pgDoc, field)
     IN /\ pgLog' = <<[op |-> "remove-route", args |-> [NoArgs EXCEPT !.field = field],
                       before |-> pgDoc, threw |-> out.threw, after |-> out.doc,
                       status |-> out.status, called |-> out.called,
                       array |-> out.array, list |-> out.list]>>
        /\ pgDoc' = IF out.status = 200 THEN out.doc ELSE pgDoc
  /\ UNCHANGED <<pgFiles, pgParts>>
  /\ PgOnly

PgNext ==
  \/ PgMerge
  \/ \E ranges \in SplitTexts : PgSplit(ranges)
  \/ \E angle \in Angles, pages \in RotateTargets : PgRotate(angle, pages)
  \/ \E field \in AngleFields, pages \in RouteTargets : PgRotateRoute(field, pages)
  \/ \E pages \in PageLists : PgExtract(pages)
  \/ \E pages \in PageLists : PgRemove(pages)
  \/ \E field \in PagesFields : PgRemoveRoute(field)

\* ========================================================================
\* The periodic sweep of the temp base (tempfile.ts, startTempCleanup)
\* ========================================================================
\* startTempCleanup(intervalMs = 5 * 60 * 1000)
intervalMs == 5 * 60 * 1000

\* now - stat.mtimeMs > 30 * 60 * 1000
MaxAgeMs == 30 * 60 * 1000

\* how many entries the temp base holds at most
MaxEntries == 2

\* the names of the entries; readdirSync lists them in this order
EntryNames == 1..MaxEntries

\* ages are kept up to the first value past the limit: older is the same
AgeCap == MaxAgeMs + intervalMs

\* what fails on an entry for as long as it exists: nothing, statSync (access
\* denied), or rmSync (a file inside is locked or not removable; force: true
\* only silences a missing path)
Faults == {"none", "stat", "rm"}

Absent == [kind |-> "none", age |-> 0, fault |-> "none"]

DirEnt(kind, fault) == [kind |-> kind, age |-> 0, fault |-> fault]

\* what may appear in the base: a job's workspace, or a stray file
NewEntries == {DirEnt("file", "none")} \cup {DirEnt("dir", f) : f \in Faults}

\* one interval later every entry is one interval older
Older(e) == IF e = Absent THEN e ELSE [e EXCEPT !.age = Min2(@ + intervalMs, AgeCap)]

\* now - stat.mtimeMs > 30 * 60 * 1000
IsStaleMut(e) == e.age >= MaxAgeMs

IsStale(e) == e.age > MaxAgeMs

\* the loop of the interval callback from entry k on.  An exception of statSync
\* or rmSync leaves the loop: the try block encloses the whole loop, so the
\* entries listed after the failing one are not looked at in this pass
RECURSIVE SweepFrom(_, _)
SweepFrom(base, k) ==
  IF k > MaxEntries THEN base
  ELSE LET e == base[k]
       IN IF e = Absent \/ e.kind # "dir" THEN SweepFrom(base, k + 1)
          ELSE IF e.fault = "stat" THEN base
          ELSE IF IsStale(e)
                 THEN IF e.fault = "rm" THEN base
                      ELSE SweepFrom([base EXCEPT ![k] = Absent], k + 1)
          ELSE SweepFrom(base, k + 1)

\* the try block of the interval callback
SweepPass(base) == SweepFrom(base, 1)

\* no job owns the entry
NoOwner == [live |-> FALSE, born |-> 0]

\* one interval later the job has held its workspace one interval longer
OlderOwner(o) == IF o.live THEN [o EXCEPT !.born = Min2(@ + intervalMs, AgeCap)] ELSE o

SweepIdle ==
  /\ running = FALSE
  /\ tmpBase = [n \in EntryNames |-> Absent]
  /\ owners = [n \in EntryNames |-> NoOwner]
  /\ lost = {}

\* startTempCleanup(): installs the interval
StartTempCleanup ==
  /\ ~running
  /\ running' = TRUE
  /\ UNCHANGED <<tmpBase, owners, lost>>
  /\ SweepOnly

\* the interval fires: one more interval has passed, and the callback runs to
\* its end (it is synchronous)
OnInterval ==
  /\ running
  /\ LET aged  == [n \in EntryNames |-> Older(tmpBase[n])]
         held  == [n \in EntryNames |-> OlderOwner(owners[n])]
         after == SweepPass(aged)
         gone  == {n \in EntryNames : aged[n] # Absent /\ after[n] = Absent}
     IN /\ tmpBase' = after
        /\ owners' = [n \in EntryNames |-> IF n \in gone THEN NoOwner ELSE held[n]]
        /\ lost' = lost \cup {held[n].born : n \in {m \in gone : held[m].live}}
  /\ UNCHANGED running
  /\ SweepOnly

\* a job creates its workspace (createTempDir), or a stray file shows up
EntryAppears(n, e) ==
  /\ tmpBase[n] = Absent
  /\ tmpBase' = [tmpBase EXCEPT ![n] = e]
  /\ UNCHANGED <<running, owners, lost>>
  /\ SweepOnly

\* cleanupTempDir(dir) of the owning job: rmSync in a try block, failure silent
JobCleanup(n) ==
  /\ tmpBase[n].kind = "dir"
  /\ tmpBase' = IF tmpBase[n].fault = "rm" THEN tmpBase
                ELSE [tmpBase EXCEPT ![n] = Absent]
  /\ owners' = [owners EXCEPT ![n] = NoOwner]
  /\ UNCHANGED <<running, lost>>
  /\ SweepOnly

\* a request reaches a service: createTempDir() makes the job's workspace
JobCreates(n) ==
  /\ tmpBase[n] = Absent
  /\ tmpBase' = [tmpBase EXCEPT ![n] = DirEnt("dir", "none")]
  /\ owners' = [owners EXCEPT ![n] = [live |-> TRUE, born |-> 0]]
  /\ UNCHANGED <<running, lost>>
  /\ SweepOnly

\* the job or its tool makes a file or directory in the workspace
\* (writeTempFile, the tool output, the pages directory): the workspace's
\* last modification is now
JobTouches(n) ==
  /\ owners[n].live
  /\ tmpBase[n] # Absent
  /\ tmpBase[n].age # 0
  /\ tmpBase' = [tmpBase EXCEPT ![n].age = 0]
  /\ UNCHANGED <<running, owners, lost>>
  /\ SweepOnly

\* the sweep together with jobs in flight
RaceNext ==
  \/ StartTempCleanup
  \/ OnInterval
  \/ \E n \in EntryNames, e \in NewEntries : EntryAppears(n, e)
  \/ \E n \in EntryNames : JobCreates(n)
  \/ \E n \in EntryNames : JobTouches(n)
  \/ \E n \in EntryNames : JobCleanup(n)

SweepNext ==
  \/ StartTempCleanup
  \/ OnInterval
  \/ \E n \in EntryNames, e \in NewEntries : EntryAppears(n, e)
  \/ \E n \in EntryNames : JobCleanup(n)

\* ========================================================================
\* Concurrent jobs and the paths they touch (tempfile.ts and the services)
\* ========================================================================
\* a path is the sequence of its segments below the root, each segment a
\* sequence of characters
Slash == "/"

Backslash == "\\"

\* the separators of the path module in use: path.posix knows "/", path.win32
\* knows both
IsSep(c, plat) == c = Slash \/ (plat = "win32" /\ c = Backslash)

\* the upload's file name as multer hands it over (file.originalname): without
\* preservePath, the multipart parser keeps what follows the last "/" or "\",
\* and nothing when that is "." or ".."
LastOf(name, seps) ==
  IF \E i \in 1..Len(name) : name[i] \in seps
    THEN CHOOSE i \in 1..Len(name) :
           /\ name[i] \in seps
           /\ \A k \in (i + 1)..Len(name) : name[k] \notin seps
    ELSE 0

OriginalNameMut(raw) == raw

OriginalName(raw) ==
  LET rest == SubSeq(raw, LastOf(raw, {Slash, Backslash}) + 1, Len(raw))
  IN IF rest \in {<<".">>, <<".", ".">>} THEN <<>> ELSE rest

\* the segments of a relative path, empty ones dropped
RECURSIVE SegmentsAcc(_, _, _)
SegmentsAcc(s, plat, cur) ==
  IF s = <<>> THEN (IF cur = <<>> THEN <<>> ELSE <<cur>>)
  ELSE IF IsSep(Head(s), plat)
         THEN (IF cur = <<>> THEN <<>> ELSE <<cur>>) \o SegmentsAcc(Tail(s), plat, <<>>)
  ELSE SegmentsAcc(Tail(s), plat, Append(cur, Head(s)))

Segments(s, plat) == SegmentsAcc(s, plat, <<>>)

\* path.normalize of an absolute path: "." is dropped, ".." drops the segment
\* before it and stays at the root when there is none
RECURSIVE NormalizeAcc(_, _)
NormalizeAcc(segs, done) ==
  IF segs = <<>> THEN done
  ELSE IF Head(segs) = <<".">> THEN NormalizeAcc(Tail(segs), done)
  ELSE IF Head(segs) = <<".", ".">>
         THEN NormalizeAcc(Tail(segs), IF done = <<>> THEN done
                                       ELSE SubSeq(done, 1, Len(done) - 1))
  ELSE NormalizeAcc(Tail(segs), Append(done, Head(segs)))

\* path.join(dir, name), dir absolute and normalized
PathJoin(dir, name, plat) == NormalizeAcc(dir \o Segments(name, plat), <<>>)

\* path.basename(name, ext): what follows the last separator, without the
\* suffix ext unless that is the whole of it
BaseName(name, ext, plat) ==
  LET segs == Segments(name, plat)
      last == IF segs = <<>> THEN <<>> ELSE segs[Len(segs)]
      n    == Len(last) - Len(ext)
  IN IF ext # <<>> /\ n > 0 /\ SubSeq(last, n + 1, Len(last)) = ext
       THEN SubSeq(last, 1, n) ELSE last

\* path.extname(name): the extension of the last segment
PathExtName(name, plat) ==
  LET segs == Segments(name, plat)
  IN IF segs = <<>> THEN <<>> ELSE ExtName(segs[Len(segs)])

\* config.tmpDir = path.join(os.tmpdir(), 'file-converter')
TMP_BASE == << <<"t", "m", "p">>,
               <<"f", "i", "l", "e", "-", "c", "o", "n", "v", "e", "r", "t", "e", "r">> >>

\* how many jobs run concurrently
MaxJobs == 2

JobIds == 1..MaxJobs

\* uuidv4(): a name no earlier call returned
Uuids == 1..MaxJobs

UuidName(k) == <<"u">> \o Digits(k)

\* the services that use a workspace, by the name they give their input
NamedByUpload == {"officeToPdf", "convertVideo"}

Upload(service, raw) == [service |-> service, raw |-> raw]

\* the uploads: plain names, and names that climb out of a directory
Uploads ==
  {Upload("officeToPdf", <<"a", ".", "d", "o", "c">>),
   Upload("officeToPdf", <<".", ".", Slash, "a", ".", "d", "o", "c">>),
   Upload("officeToPdf", <<".", ".", Backslash, ".", ".", Backslash, "a", ".", "d", "o", "c">>),
   Upload("convertVideo", <<"x", Slash, ".", ".", Slash, ".", ".", Slash, "v", ".", "a", "v", "i">>),
   Upload("convertVideo", <<Slash, "e", "t", "c", Slash, ".", ".">>),
   Upload("compressPdf", <<".", ".", Slash, "p", ".", "p", "d", "f">>)}

Touch(op, path) == [op |-> op, path |-> path]

NewJob(u) == [pc |-> "received", upload |-> u, dir |-> <<>>, touched |-> {}]

\* the name writeTempFile is given
InputName(u) ==
  IF u.service \in NamedByUpload THEN OriginalName(u.raw)
  ELSE <<"i", "n", "p", "u", "t", ".", "p", "d", "f">>

\* the name of the file the tool is told to write
OutputName(u, plat) ==
  LET name == InputName(u)
      base == BaseName(name, PathExtName(name, plat), plat)
  IN CASE u.service = "officeToPdf"  -> base \o <<".", "p", "d", "f">>
       [] u.service = "convertVideo" -> base \o <<".", "m", "p", "4">>
       [] OTHER -> <<"o", "u", "t", "p", "u", "t", ".", "p", "d", "f">>

\* createTempDir(): path.join(config.tmpDir, uuidv4())
createTempDir(k, plat) == PathJoin(TMP_BASE, UuidName(k), plat)

\* the synchronous start of a service: createTempDir, writeTempFile and, for
\* officeToPdf, the LibreOffice profile directory
Started(job, k, plat) ==
  LET dir == createTempDir(k, plat)
      profile == IF job.upload.service = "officeToPdf"
                   THEN {Touch("mkdir", PathJoin(dir, <<"l", "o", "_", "p", "r", "o", "f", "i", "l", "e">>, plat))}
                   ELSE {}
  IN [job EXCEPT !.pc = "awaiting", !.dir = dir,
                 !.touched = {Touch("mkdir", dir),
                              Touch("write", PathJoin(dir, InputName(job.upload), plat))}
                             \cup profile]

JobIdle ==
  /\ platform = "posix"
  /\ issued = {}
  /\ jobs = <<>>

\* the route calls the service.  An upload whose file name is empty is no
\* file to multer: the route answers 400 and no workspace is made
JobStart(j) ==
  /\ jobs[j].pc = "received"
  /\ IF jobs[j].upload.service \in NamedByUpload /\ InputName(jobs[j].upload) = <<>>
       THEN /\ jobs' = [jobs EXCEPT ![j].pc = "done"]
            /\ UNCHANGED issued
       ELSE \E k \in Uuids \ issued :
              /\ issued' = issued \cup {k}
              /\ jobs' = [jobs EXCEPT ![j] = Started(jobs[j], k, platform)]
  /\ UNCHANGED platform
  /\ JobOnly

\* the child process runs while the service awaits exec; it writes the output
\* file it was given, or fails before it does
ToolRuns(j, wrote) ==
  /\ jobs[j].pc = "awaiting"
  /\ jobs' = [jobs EXCEPT
       ![j].pc = "settled",
       ![j].touched = IF wrote
                        THEN @ \cup {Touch("tool", PathJoin(jobs[j].dir, OutputName(jobs[j].upload, platform), platform))}
                        ELSE @]
  /\ UNCHANGED <<platform, issued>>
  /\ JobOnly

\* after the await: the output is checked and read, and the finally block
\* removes the workspace
JobFinish(j) ==
  /\ jobs[j].pc = "settled"
  /\ jobs' = [jobs EXCEPT
       ![j].pc = "done",
       ![j].touched = @ \cup {Touch("read", PathJoin(jobs[j].dir, OutputName(jobs[j].upload, platform), platform)),
                              Touch("rm", jobs[j].dir)}]
  /\ UNCHANGED <<platform, issued>>
  /\ JobOnly

JobNext ==
  \/ \E j \in JobIds : JobStart(j)
  \/ \E j \in JobIds, wrote \in BOOLEAN : ToolRuns(j, wrote)
  \/ \E j \in JobIds : JobFinish(j)

\* ---- the file a Conversion Service writes and the file it expects ----
\* the services that write the upload under a name and then look for an
\* output file by name (htmlToPdf and markdownToPdf go through officeToPdf)
ExpectsOutput == {"officeToPdf", "convertVideo", "convertEbook", "htmlToPdf", "markdownToPdf"}

\* the name given to writeTempFile
WrittenName(service, name) ==
  IF service \in {"htmlToPdf", "markdownToPdf"}
    THEN <<"i", "n", "p", "u", "t", ".", "h", "t", "m", "l">>
  ELSE name

\* pdfName / outName: the name the output-exists check looks for
ExpectedName(service, name, target, plat) ==
  LET w    == WrittenName(service, name)
      base == BaseName(w, PathExtName(w, plat), plat)
  IN IF service \in {"convertVideo", "convertEbook"} THEN base \o <<".">> \o target
     ELSE base \o <<".", "p", "d", "f">>

InputPath(service, name, plat) ==
  PathJoin(createTempDir(1, plat), WrittenName(service, name), plat)

ExpectedPath(service, name, target, plat) ==
  PathJoin(createTempDir(1, plat), ExpectedName(service, name, target, plat), plat)

\* ========================================================================
\* video.service.ts: convertVideo and the ffmpeg command line
\* ========================================================================
\* a path rendered as the string handed to ffmpeg
RECURSIVE PathString(_)
PathString(segs) ==
  IF segs = <<>> THEN <<>> ELSE <<Slash>> \o Head(segs) \o PathString(Tail(segs))

\* the text a template literal gives for a missing array element
Undefined == <<"u", "n", "d", "e", "f", "i", "n", "e", "d">>

Gif == <<"g", "i", "f">>

\* the option flags of the generic path (lines 41-63)
OptY == <<"-", "y">>

OptI == <<"-", "i">>

OptSs == <<"-", "s", "s">>

OptT == <<"-", "t">>

OptVf == <<"-", "v", "f">>

OptR == <<"-", "r">>

OptBv == <<"-", "b", ":", "v">>

OptCrf == <<"-", "c", "r", "f">>

OptVn == <<"-", "v", "n">>

OptAn == <<"-", "a", "n">>

OptGifflags == <<"-", "g", "i", "f", "f", "l", "a", "g", "s">>

OptCv == <<"-", "c", ":", "v">>

OptCa == <<"-", "c", ":", "a">>

OptPreset == <<"-", "p", "r", "e", "s", "e", "t">>

OptQa == <<"-", "q", ":", "a">>

OptBa == <<"-", "b", ":", "a">>

H264 == <<OptCv, <<"l", "i", "b", "x", "2", "6", "4">>, OptPreset,
          <<"m", "e", "d", "i", "u", "m">>, OptCa, <<"a", "a", "c">> >>

\* lines 80-105: the codec options appended for the target
CodecArgs(target) ==
  CASE target = <<"m", "p", "4">> -> H264
    [] target = <<"w", "e", "b", "m">> ->
         <<OptCv, <<"l", "i", "b", "v", "p", "x", "-", "v", "p", "9">>,
           OptCa, <<"l", "i", "b", "o", "p", "u", "s">> >>
    [] target = <<"m", "k", "v">> -> H264
    [] target = <<"a", "v", "i">> ->
         <<OptCv, <<"m", "p", "e", "g", "4">>, OptCa, <<"m", "p", "3">> >>
    [] target = <<"m", "o", "v">> ->
         <<OptCv, <<"l", "i", "b", "x", "2", "6", "4">>, OptCa, <<"a", "a", "c">> >>
    [] target = <<"m", "p", "3">> ->
         <<OptCa, <<"l", "i", "b", "m", "p", "3", "l", "a", "m", "e">>, OptQa, <<"2">> >>
    [] target = <<"w", "a", "v">> ->
         <<OptCa, <<"p", "c", "m", "_", "s", "1", "6", "l", "e">> >>
    [] target = <<"a", "a", "c">> ->
         <<OptCa, <<"a", "a", "c">>, OptBa, <<"1", "9", "2", "k">> >>
    [] target = <<"o", "g", "g">> ->
         <<OptCa, <<"l", "i", "b", "v", "o", "r", "b", "i", "s">>, OptQa, <<"5">> >>
    [] target = <<"f", "l", "a", "c">> -> <<OptCa, <<"f", "l", "a", "c">> >>
    [] OTHER -> <<>>

\* lines 34-36: where the upload is written and where the output is expected
VideoInput(call) ==
  PathString(PathJoin(createTempDir(1, call.plat), call.inputFilename, call.plat))

VideoOutName(call) ==
  BaseName(call.inputFilename, PathExtName(call.inputFilename, call.plat), call.plat)
    \o <<".">> \o call.target

VideoOutput(call) ==
  PathString(PathJoin(createTempDir(1, call.plat), VideoOutName(call), call.plat))

\* lines 41-42 and 71-72: the trim options
TrimArgs(o) ==
  (IF o.startTime # <<>> THEN <<OptSs, o.startTime>> ELSE <<>>)
    \o (IF o.duration # <<>> THEN <<OptT, o.duration>> ELSE <<>>)

\* lines 38-63: the generic argument vector before the target is looked at
GenericArgs(call) ==
  LET o  == call.opts
      wh == Split(o.resolution, "x")
      w  == wh[1]
      h  == IF Len(wh) > 1 THEN wh[2] ELSE Undefined
  IN <<OptY, OptI, VideoInput(call)>>
       \o TrimArgs(o)
       \o (IF o.resolution # <<>>
             THEN <<OptVf, <<"s", "c", "a", "l", "e", "=">> \o w \o <<":">> \o h>>
             ELSE <<>>)
       \o (IF o.fps # 0 THEN <<OptR, Digits(o.fps)>> ELSE <<>>)
       \o (IF o.bitrate # <<>> THEN <<OptBv, o.bitrate>> ELSE <<>>)
       \o (IF o.crf # <<>> THEN <<OptCrf, o.crf>> ELSE <<>>)
       \o (IF o.audioOnly THEN <<OptVn>> ELSE <<>>)
       \o (IF o.videoOnly THEN <<OptAn>> ELSE <<>>)

\* lines 67-77: the gif filter and the vector rebuilt for it
GifFilter(o) ==
  LET fps   == IF o.fps # 0 THEN o.fps ELSE 10
      scale == IF o.resolution # <<>> THEN Split(o.resolution, "x")[1]
               ELSE <<"4", "8", "0">>
  IN <<"f", "p", "s", "=">> \o Digits(fps) \o <<",", "s", "c", "a", "l", "e", "=">>
       \o scale \o <<":", "-", "1", ":", "f", "l", "a", "g", "s", "=",
                     "l", "a", "n", "c", "z", "o", "s">>

GifArgs(call) ==
  <<OptY, OptI, VideoInput(call)>>
    \o TrimArgs(call.opts)
    \o <<OptVf, GifFilter(call.opts), OptGifflags,
         <<"+", "t", "r", "a", "n", "s", "d", "i", "f", "f">>, VideoOutput(call)>>

\* lines 38-107: the vector handed to exec
FfmpegArgs(call) ==
  IF call.target = Gif THEN GifArgs(call)
  ELSE GenericArgs(call) \o CodecArgs(call.target) \o <<VideoOutput(call)>>

\* ---- the calls considered ----
\* the VideoFormat type, and one extension isVideoFormat accepts beyond it
VideoTargets == VideoFormats \cup AudioFormats \cup { <<"t", "s">> }

VideoNames ==
  { <<"v", ".", "m", "p", "4">>, <<"V", ".", "M", "P", "4">>,
    <<"v", ".", "a", "v", "i">>, <<"a", ".", "m", "p", "3">>,
    <<"c", "l", "i", "p">> }

VideoOpts ==
  [ startTime  : { <<>>, <<"1">> },
    duration   : { <<>>, <<"5">> },
    resolution : { <<>>, <<"6", "4", "x", "4", "8">>, <<"7", "2">> },
    fps        : { 0, 24 },
    bitrate    : { <<>>, <<"1", "M">> },
    crf        : { <<>>, <<"2", "3">> },
    audioOnly  : BOOLEAN,
    videoOnly  : BOOLEAN ]

VideoCalls ==
  [ inputFilename : VideoNames, target : VideoTargets, opts : VideoOpts,
    plat : {"posix", "win32"} ]

NoVideoCall == [ inputFilename |-> <<>>, target |-> <<>>,
                 opts |-> [ startTime |-> <<>>, duration |-> <<>>, resolution |-> <<>>,
                            fps |-> 0, bitrate |-> <<>>, crf |-> <<>>,
                            audioOnly |-> FALSE, videoOnly |-> FALSE ],
                 plat |-> "posix" ]

VideoIdle == vidCall = NoVideoCall /\ vidArgs = <<>> /\ vidResult = "none"

\* lines 32-109: the workspace, the upload written, the vector built, ffmpeg started
convertVideo ==
  /\ vidResult = "none"
  /\ vidArgs' = FfmpegArgs(vidCall)
  /\ vidResult' = "pending"
  /\ UNCHANGED vidCall
  /\ VideoOnly

\* lines 109-126: ffmpeg settles; the exit code, the output file and its size
\* are checked.  The file at the output path is the one ffmpeg wrote or,
\* when ffmpeg wrote none, whatever was already there.
FfmpegSettles(code, wrote, big) ==
  LET there == wrote \/ VideoOutput(vidCall) = VideoInput(vidCall)
  IN /\ vidResult = "pending"
     /\ vidResult' = IF code # 0 \/ ~there \/ (wrote /\ ~big) THEN "thrown"
                     ELSE "returned"
     /\ UNCHANGED <<vidCall, vidArgs>>
     /\ VideoOnly

VideoNext ==
  \/ convertVideo
  \/ \E code \in {0, 1}, wrote \in BOOLEAN, big \in BOOLEAN : FfmpegSettles(code, wrote, big)

\* ========================================================================
\* useModuleState.ts: the module-state reducer
\* ========================================================================
MAX_HISTORY == 20

\* the values a module's state takes; === compares them by identity
ModValues == {"a", "b"}

ModState(current, history, index) ==
  [current |-> current, history |-> history, index |-> index]

\* a payload of SET: a value, or an updater applied to the current value
Value(v) == [fn |-> FALSE, val |-> v]

Updater(name) == [fn |-> TRUE, val |-> name]

Updaters == {"same", "other"}

ApplyUpdater(name, prev) ==
  IF name = "same" THEN prev ELSE CHOOSE v \in ModValues : v # prev

ModAction(type, payload) == [type |-> type, payload |-> payload]

ModActions ==
  {ModAction("LOAD", Value(v)) : v \in ModValues}
    \cup {ModAction("SET", Value(v)) : v \in ModValues}
    \cup {ModAction("SET", Updater(u)) : u \in Updaters}
    \cup {ModAction("UNDO", Value("a")), ModAction("REDO", Value("a"))}

\* history.slice(0, index + 1) without the slice: the new value is pushed
\* onto the whole history
SliceMut(history, index) == history

Slice(history, index) == SubSeq(history, 1, index + 1)

\* JavaScript arrays are indexed from 0
At(history, index) == history[index + 1]

\* the reducer (lines 20-70)
Reduce(state, action) ==
  CASE action.type = "LOAD" ->
         ModState(action.payload.val, <<action.payload.val>>, 0)
    [] action.type = "SET" ->
         LET newState == IF action.payload.fn
                           THEN ApplyUpdater(action.payload.val, state.current)
                           ELSE action.payload.val
             pushed   == Append(Slice(state.history, state.index), newState)
             newHistory == IF Len(pushed) > MAX_HISTORY THEN Tail(pushed) ELSE pushed
         IN IF newState = state.current THEN state
            ELSE ModState(newState, newHistory, Len(newHistory) - 1)
    [] action.type = "UNDO" ->
         IF state.index <= 0 THEN state
         ELSE [state EXCEPT !.current = At(state.history, state.index - 1),
                            !.index = state.index - 1]
    [] action.type = "REDO" ->
         IF state.index >= Len(state.history) - 1 THEN state
         ELSE [state EXCEPT !.current = At(state.history, state.index + 1),
                            !.index = state.index + 1]
    [] OTHER -> state

\* canUndo / canRedo (lines 146-147)
canUndo(state) == state.index > 0

canRedo(state) == state.index < Len(state.history) - 1

\* how many dispatched actions are remembered
LogLen == 2

Remember(log, entry) ==
  IF Len(log) < LogLen THEN Append(log, entry) ELSE Append(Tail(log), entry)

NoModState == ModState("", <<>>, 0)

ModIdle == modState = NoModState /\ modLog = <<>>

\* dispatch(action)
Dispatching(action) ==
  /\ modState # NoModState
  /\ modState' = Reduce(modState, action)
  /\ modLog' = Remember(modLog, [action |-> action, before |-> modState])
  /\ ModOnly

ModNext == \E action \in ModActions : Dispatching(action)

\* ========================================================================
\* The sidebar file manager (FileManagerProvider): sets, history, historyIndex
\* ========================================================================
\* const MAX_HISTORY = 20 of the provider
FM_MAX_HISTORY == 20

\* calls made before the provider renders again
MaxPending == 2

\* calls made on closures older than the state
MaxRaces == 1

\* what the sidebar shows (labels and files); an operation computes a list
\* that differs from the one it was computed from
SetLists == {"x", "y"}

OtherList(v) == CHOOSE w \in SetLists : w # v

\* arr.slice(-n)
LastN(s, n) == IF Len(s) > n THEN SubSeq(s, Len(s) - n + 1, Len(s)) ELSE s

\* arr.slice(0, end)
SliceTo(s, end) == SubSeq(s, 1, Min2(end, Len(s)))

Seen(sets, history, index) == [sets |-> sets, history |-> history, index |-> index]

FmState == Seen(fmSets, fmHistory, fmIndex)

\* the callbacks of the last render no longer hold the state
Stale == fmSeen # FmState

FmIdle ==
  /\ fmSets = "" /\ fmHistory = <<>> /\ fmIndex = 0
  /\ fmSeen = Seen("", <<>>, 0)
  /\ fmPending = 0 /\ fmLoaded = FALSE /\ fmRaces = 0 /\ fmFellBack = FALSE

FmMounted == fmHistory # <<>>

\* a call through a callback of the last render
Called ==
  /\ FmMounted
  /\ fmPending < MaxPending
  /\ fmPending' = fmPending + 1
  /\ Stale => fmRaces < MaxRaces
  /\ fmRaces' = IF Stale THEN fmRaces + 1 ELSE fmRaces
  /\ UNCHANGED <<fmSeen, fmLoaded, fmFellBack>>

\* setHistory(prev => ...) of pushHistory, with the historyIndex of the closure
PushedHistory(prev, index, newSets) ==
  LastN(Append(SliceTo(prev, index + 1), newSets), FM_MAX_HISTORY)

\* addSet, removeSet, renameSet, addFilesToSet, ..., clearSets, updateSets:
\* newSets is computed from the sets of the closure (or made anew) and handed
\* to pushHistory (lines 77-105)
Operation ==
  /\ Called
  /\ LET newSets == OtherList(fmSeen.sets)
     IN /\ fmHistory' = PushedHistory(fmHistory, fmSeen.index, newSets)
        /\ fmIndex' = Min2(fmIndex + 1, FM_MAX_HISTORY - 1)
        /\ fmSets' = newSets
  /\ FmOnly

\* undo (lines 109-126): the index is the latest, the history is the closure's
Undo ==
  /\ Called
  /\ IF fmIndex > 0
       THEN /\ fmIndex' = fmIndex - 1
            /\ fmSets' = IF fmIndex - 1 < Len(fmSeen.history)
                           THEN fmSeen.history[fmIndex] ELSE fmSets
       ELSE UNCHANGED <<fmIndex, fmSets>>
  /\ UNCHANGED fmHistory
  /\ FmOnly

\* redo (lines 128-141)
Redo ==
  /\ Called
  /\ IF fmIndex < Len(fmSeen.history) - 1
       THEN /\ fmIndex' = fmIndex + 1
            /\ fmSets' = fmSeen.history[fmIndex + 2]
       ELSE UNCHANGED <<fmIndex, fmSets>>
  /\ UNCHANGED fmHistory
  /\ FmOnly

\* the provider renders: every callback is made again over the present state
Render ==
  /\ FmMounted
  /\ Stale
  /\ fmSeen' = FmState
  /\ fmPending' = 0
  /\ UNCHANGED <<fmSets, fmHistory, fmIndex, fmLoaded, fmRaces, fmFellBack>>
  /\ FmOnly

\* the effect of mount (lines 61-75): the stored sets, when there are any
Load(stored) ==
  /\ FmMounted
  /\ ~fmLoaded
  /\ fmLoaded' = TRUE
  /\ IF stored # ""
       THEN fmSets' = stored /\ fmHistory' = <<stored>> /\ fmIndex' = 0
       ELSE UNCHANGED <<fmSets, fmHistory, fmIndex>>
  /\ UNCHANGED <<fmSeen, fmPending, fmRaces, fmFellBack>>
  /\ FmOnly

\* factoryReset when db.clear() rejects (lines 154-158): only sets is replaced
FactoryResetFallback(fresh) ==
  /\ FmMounted
  /\ ~fmFellBack
  /\ fmSets' = fresh
  /\ fmFellBack' = TRUE
  /\ UNCHANGED <<fmHistory, fmIndex, fmSeen, fmPending, fmLoaded, fmRaces>>
  /\ FmOnly

FmNext ==
  \/ Operation
  \/ Undo
  \/ Redo
  \/ Render
  \/ \E stored \in SetLists \cup {""} : Load(stored)
  \/ \E fresh \in SetLists : FactoryResetFallback(fresh)

\* ========================================================================
\* Specifications
\* ========================================================================
ExecInit == ExecIdle /\ PdfIdle /\ ConvIdle /\ PgIdle /\ SweepIdle /\ JobIdle /\ VideoIdle /\ ModIdle /\ FmIdle

SpecExec == ExecInit /\ [][ExecNext]_vars

\* a split or merge request has arrived
PdfInit ==
  /\ ExecIdle
  /\ pdfReq \in SplitRequests \cup MergeRequests
  /\ pdfResp = NoResp
  /\ ConvIdle
  /\ PgIdle
  /\ SweepIdle
  /\ JobIdle
  /\ VideoIdle
  /\ ModIdle
  /\ FmIdle

SpecPdf == PdfInit /\ [][PdfNext]_vars

\* a request has arrived on one of the convert, pdf-tool or ocr routes
Init ==
  /\ ExecIdle
  /\ PdfIdle
  /\ PgIdle
  /\ SweepIdle
  /\ JobIdle
  /\ VideoIdle
  /\ ModIdle
  /\ FmIdle
  /\ req \in Requests
  /\ phase = "received"
  /\ Fresh

Next == ConvNext

Spec == Init /\ [][Next]_vars

\* a client holds two PDF buffers and chains page operations
PgInit ==
  /\ ExecIdle
  /\ PdfIdle
  /\ ConvIdle
  /\ SweepIdle
  /\ JobIdle
  /\ VideoIdle
  /\ ModIdle
  /\ FmIdle
  /\ pgFiles \in {<<PdfBuffer(a), PdfBuffer(b)>> : a \in PgDocs, b \in PgSingles}
  /\ pgDoc = pgFiles[1].pages
  /\ pgLog = <<>>
  /\ pgParts = <<>>

SpecPages == PgInit /\ [][PgNext]_vars

\* the server has started with an empty temp base
SweepInit ==
  /\ ExecIdle
  /\ PdfIdle
  /\ ConvIdle
  /\ PgIdle
  /\ JobIdle
  /\ VideoIdle
  /\ ModIdle
  /\ FmIdle
  /\ SweepIdle

\* setInterval keeps firing the callback for as long as the process lives
SweepFair == WF_vars(OnInterval)

SpecSweep == SweepInit /\ [][SweepNext]_vars /\ SweepFair

SpecRace == SweepInit /\ [][RaceNext]_vars

\* uploads have arrived for the jobs, none has started
JobInit ==
  /\ ExecIdle
  /\ PdfIdle
  /\ ConvIdle
  /\ PgIdle
  /\ SweepIdle
  /\ VideoIdle
  /\ ModIdle
  /\ FmIdle
  /\ platform \in {"posix", "win32"}
  /\ issued = {}
  /\ jobs \in [JobIds -> {NewJob(u) : u \in Uploads}]

SpecJobs == JobInit /\ [][JobNext]_vars

\* a call of convertVideo is about to be made
VideoInit ==
  /\ ExecIdle
  /\ PdfIdle
  /\ ConvIdle
  /\ PgIdle
  /\ SweepIdle
  /\ JobIdle
  /\ ModIdle
  /\ FmIdle
  /\ vidCall \in VideoCalls
  /\ vidArgs = <<>>
  /\ vidResult = "none"

SpecVideo == VideoInit /\ [][VideoNext]_vars

\* useReducer(createReducer(), { current: initialState, history: [initialState], index: 0 })
ModInit ==
  /\ ExecIdle
  /\ PdfIdle
  /\ ConvIdle
  /\ PgIdle
  /\ SweepIdle
  /\ JobIdle
  /\ VideoIdle
  /\ FmIdle
  /\ modState \in {ModState(v, <<v>>, 0) : v \in ModValues}
  /\ modLog = <<>>

SpecModule == ModInit /\ [][ModNext]_vars

\* the provider has mounted: one empty "Set 1" shown and in the history
FmInit ==
  /\ ExecIdle
  /\ PdfIdle
  /\ ConvIdle
  /\ PgIdle
  /\ SweepIdle
  /\ JobIdle
  /\ VideoIdle
  /\ ModIdle
  /\ fmSets \in SetLists
  /\ fmHistory = <<fmSets>>
  /\ fmIndex = 0
  /\ fmSeen = Seen(fmSets, <<fmSets>>, 0)
  /\ fmPending = 0
  /\ fmLoaded = FALSE
  /\ fmRaces = 0
  /\ fmFellBack = FALSE

SpecFiles == FmInit /\ [][FmNext]_vars

\* ========================================================================
\* Convert Dispatcher and Temp Workspace properties (checked under Spec)
\* ========================================================================

\* The dispatcher's rules in their fixed order, as a table.
Rules == 1..11

RuleMatches(i, in, t) ==
  CASE i = 1 -> isOfficeFormat(in) /\ t = Pdf
    [] i = 2 -> in = Pdf /\ isOfficeFormat(t)
    [] i = 3 -> in = Pdf /\ isImageFormat(t)
    [] i = 4 -> isImageFormat(in) /\ t = Pdf
    [] i = 5 -> isImageFormat(in) /\ isImageFormat(t)
    [] i = 6 -> (isVideoFormat(in) \/ isAudioFormat(in))
                  /\ (isVideoFormat(t) \/ isAudioFormat(t))
    [] i = 7 -> isEbookFormat(in) /\ (isEbookFormat(t) \/ t = Pdf)
    [] i = 8 -> in = Pdf /\ isEbookFormat(t)
    [] i = 9 -> in \in {<<"h", "t", "m", "l">>, <<"h", "t", "m">>} /\ t = Pdf
    [] i = 10 -> in = <<"m", "d">> /\ t = Pdf
    [] OTHER -> t = Pdf

RuleService(i) ==
  CASE i = 1 -> "officeToPdf"
    [] i = 2 -> "pdfToOffice"
    [] i = 3 -> "pdfToImages"
    [] i = 4 -> "imagesToPdf"
    [] i = 5 -> "convertImage"
    [] i = 6 -> "convertVideo"
    [] i = 7 -> "convertEbook"
    [] i = 8 -> "convertEbook"
    [] i = 9 -> "htmlToPdf"
    [] i = 10 -> "markdownToPdf"
    [] OTHER -> "officeToPdf"

MatchingRules(in, t) == {i \in Rules : RuleMatches(i, in, t)}

FirstRule(in, t) ==
  CHOOSE i \in MatchingRules(in, t) : \A j \in MatchingRules(in, t) : i <= j

\* a POST /convert request with a file and a non-empty target format, past
\* the dispatcher's decision
Dispatched ==
  /\ req.route = "convert"
  /\ req.hasFile
  /\ TargetFormatOf(req) # <<>>
  /\ phase \in {"await", "done"}

\* C1: for every POST /convert request with a file and a non-empty target
\* format, at most one Conversion Service is invoked, and it is the service of
\* the first rule, in the fixed order, that matches (inputExt, targetFormat);
\* when the target is pdf some service is always invoked.
C1_FirstMatchWins ==
  Dispatched =>
    LET in == InputExt(req.name)
        t  == TargetFormatOf(req)
    IN  /\ Len(invoked) <= 1
        /\ invoked = IF MatchingRules(in, t) = {} THEN <<>>
                     ELSE <<RuleService(FirstRule(in, t))>>
        /\ (t = Pdf => Len(invoked) = 1)

\* a .png upload with format=pdf satisfies rule 4 and the fallback rule 11;
\* the image-to-pdf service of rule 4 has served it
C1_Witness ==
  /\ Dispatched
  /\ phase = "done"
  /\ InputExt(req.name) = <<"p", "n", "g">>
  /\ targetFormat = Pdf
  /\ Cardinality(MatchingRules(InputExt(req.name), targetFormat)) = 2
  /\ invoked = <<"imagesToPdf">>
  /\ res = FileSent

\* the pairs GET /convert/formats reports as supported
SupportedPair(in, t) ==
  \/ in \in DocumentsToPdf /\ t = Pdf
  \/ in = Pdf /\ t \in DocumentsFromPdf
  \/ in \in ImagesFormats /\ t \in ImagesFormats
  \/ in \in ImagesFormats /\ t = Pdf
  \/ in = Pdf /\ t \in ImagesFormats
  \/ in \in VideoFormats \cup AudioFormats /\ t \in VideoFormats \cup AudioFormats
  \/ in \in EbooksFormats /\ t \in EbooksFormats

\* C2: every (inputExt, targetFormat) pair that GET /convert/formats reports
\* as supported is routed by POST /convert to a Conversion Service: the
\* request is never answered with the unsupported-pair 400.
C2_SupportedPairsRouted ==
  (Dispatched /\ SupportedPair(InputExt(req.name), TargetFormatOf(req)))
    => /\ Len(invoked) = 1
       /\ res # UnsupportedJson

\* C3: when no dispatcher rule matches (inputExt, targetFormat), POST /convert
\* answers 400 with a JSON body holding `error` and `supported`, and for that
\* request no Conversion Service is called, no temp workspace is created and
\* no external process is spawned.
C3_UnsupportedPair ==
  (Dispatched /\ MatchingRules(InputExt(req.name), TargetFormatOf(req)) = {})
    => /\ phase = "done"
       /\ res.status = 400
       /\ res.type = "json"
       /\ res.error
       /\ res.supported
       /\ invoked = <<>>
       /\ created = 0
       /\ workspaces = {}
       /\ spawned = 0

\* the scenario of the specification: a .docx upload with format=mp4
C3_Witness ==
  /\ req.route = "convert"
  /\ req.hasFile
  /\ req.name = <<"f", ".", "d", "o", "c", "x">>
  /\ req.format = Field(<<"m", "p", "4">>)
  /\ phase = "done"
  /\ res.status = 400
  /\ res.supported
  /\ invoked = <<>>

\* the body field the route takes its target format from
ChosenField(r) ==
  IF r.format.present /\ r.format.text # <<>> THEN r.format
  ELSE IF r.route = "convert" THEN r.target
  ELSE r.format

IsBlank(f) == ~f.present \/ \A k \in 1..Len(f.text) : f.text[k] = " "

IsToken(t) ==
  /\ t # <<>>
  /\ t[1] # " "
  /\ t[Len(t)] # " "
  /\ \A k \in 1..Len(t) : ~IsUpper(t[k])

\* C4: if the target format field is absent or empty after trimming, POST
\* /convert and POST /convert/batch answer 400 and create no temp workspace
\* and spawn no external process; whenever one of these routes invokes a
\* Conversion Service, the target format it receives is non-empty, trimmed
\* and lowercase.
C4_TargetFormat ==
  req.route \in {"convert", "batch"} =>
    /\ IsBlank(ChosenField(req)) =>
         /\ phase = "done" => res.status = 400 /\ res.type = "json"
         /\ phase # "await"
         /\ invoked = <<>>
         /\ created = 0
         /\ spawned = 0
    /\ \A k \in 1..Len(passed) : IsToken(passed[k])

\* a batch of images with format=" " has been answered 400
C4_Witness ==
  /\ req.route = "batch"
  /\ req.nFiles = MaxBatch
  /\ req.format = Field(<<" ">>)
  /\ phase = "done"
  /\ res = ErrorJson(400)
  /\ created = 0
  /\ spawned = 0

\* the number of service calls in progress that hold a workspace
OpenWorkspaces == IF body # "" /\ UsesTemp(body) THEN 1 ELSE 0

\* C5 as stated: when a service call has returned or thrown, the workspace
\* directory it created no longer exists on disk.
C5_WorkspaceGone ==
  (body = "" /\ result # "none") => workspaces = {}

\* C5: when a Conversion Service that called createTempDir returns or throws
\* (tool non-zero exit, missing output, Process Runner timeout, spawn error
\* included), it has called cleanupTempDir on the workspace it created, and
\* the directory no longer exists on disk unless fs.rmSync itself failed.
C5_WorkspaceCleaned ==
  /\ created = cleanups + OpenWorkspaces
  /\ workspaces \subseteq 1..created
  /\ ~rmFailed => Cardinality(workspaces) = OpenWorkspaces

\* a service call that spawned its tool has thrown and its workspace is gone
C5_Witness ==
  /\ phase = "done"
  /\ result = "threw"
  /\ spawned >= 1
  /\ created = 1
  /\ cleanups = 1
  /\ workspaces = {}

\* ========================================================================
\* Process Runner properties
\* ========================================================================

\* C6: when the timer callback has run, SIGKILL was sent, no less than
\* timeoutMs (5 minutes when the option is absent) had elapsed and the promise
\* is rejected with the timeout error - also in every later state, so the
\* 'close' that follows the kill does not resolve it; while the child has
\* neither closed nor raised an error the timer stays armed and fires once
\* timeoutMs has elapsed; a close or error before the timeout cancels the
\* timer and the runner never kills; a settled promise never changes and,
\* once the timer is no longer armed, the promise is settled.
C6_TimeoutState ==
  /\ called /\ options = 0 => timeoutMs = 300000
  /\ timer = "fired" =>
       /\ killSent
       /\ elapsed >= timeoutMs
       /\ promise = [state |-> "rejected", reason |-> "timeout"]
  /\ (child = "running" /\ ~closeSeen /\ ~errorSeen /\ timer # "fired") =>
       /\ timer = "armed"
       /\ elapsed >= timeoutMs => ENABLED OnTimeout
  /\ ((closeSeen \/ errorSeen) /\ timer # "fired") =>
       /\ timer = "cleared"
       /\ ~killSent
  /\ killSent => timer = "fired"
  /\ (called /\ timer # "armed") => promise.state # "pending"
  /\ promise.state # "pending" => settleCalls >= 1

C6_Timeout ==
  /\ []C6_TimeoutState
  /\ [][promise.state # "pending" => promise' = promise]_vars

\* C6 witness: the timer fired on a running child, the kill was followed by
\* the 'close' event, and the promise is still the timeout rejection.
C6_Witness ==
  /\ timer = "fired"
  /\ killSent
  /\ closeSeen
  /\ settleCalls = 2
  /\ promise = [state |-> "rejected", reason |-> "timeout"]

\* C7: a child that was spawned and closed before the timer ran gives a
\* resolved promise holding the accumulated stdout and stderr and the exit
\* code, 1 standing for a null code; non-zero codes resolve too; a rejected
\* promise is either the timeout (the timer ran) or a spawn-level error (no
\* child was started).
C7_CloseResolves ==
  /\ (child = "closed" /\ timer # "fired") =>
       promise = [state |-> "resolved", stdout |-> stdout, stderr |-> stderr,
                  code |-> IF closeCode.isNull THEN 1 ELSE closeCode.val]
  /\ promise.state = "rejected" =>
       \/ promise.reason = "timeout" /\ timer = "fired"
       \/ promise.reason = "spawn" /\ child \in {"none", "failed"}
  /\ promise.state = "resolved" => child = "closed" /\ ~errorSeen

\* C7 witness: the child died with a null exit code after writing to stderr
\* and the promise is resolved with code 1.
C7_Witness ==
  /\ child = "closed"
  /\ timer = "cleared"
  /\ closeCode.isNull
  /\ Len(stderr) > 0
  /\ promise.state = "resolved"
  /\ promise.code = 1

\* ========================================================================
\* Split and Merge properties
\* ========================================================================

\* the pages an item names, clipped to [1, n], in ascending order
NamedPages(it, n) ==
  SelectSeq([k \in 1..n |-> k],
            LAMBDA k : IF it.isRange THEN it.lo <= k /\ k <= it.hi ELSE k = it.lo)

\* the pages a group names, in the order written
NamedByGroup(g, n) == Flatten([k \in 1..Len(g) |-> NamedPages(g[k], n)])

\* the documents a written specification asks for: one per group that names
\* a valid page, in group order, each holding the named pages of the source
RequestedDocs(spec, src) ==
  LET named == [k \in 1..Len(spec) |-> NamedByGroup(spec[k], Len(src))]
      kept  == SelectSeq(named, LAMBDA g : g # <<>>)
  IN  [k \in 1..Len(kept) |-> [j \in 1..Len(kept[k]) |-> src[kept[k][j]]]]

SplitServed == pdfReq.route = "split" /\ pdfResp # NoResp /\ pdfReq.hasFile /\ pdfReq.file.pdf

C9_NoPagesRejected ==
  (/\ SplitServed
   /\ pdfReq.hasRanges
   /\ \/ pdfReq.ranges = <<>>
      \/ /\ pdfReq.structured
         /\ pdfReq.groups # <<>>
         /\ RequestedDocs(pdfReq.groups, pdfReq.file.pages) = <<>>)
    => pdfResp.status = 400 /\ pdfResp.error

\* C10: a merge request with fewer than two files is answered 400 and nothing
\* is merged; with two or more PDFs the response is one PDF whose page count
\* is the sum of the sources' page counts and whose k-th page is the page at
\* the same offset of the sources taken in upload order.
RECURSIVE PageCount(_)
PageCount(files) == IF files = <<>> THEN 0 ELSE Len(Head(files).pages) + PageCount(Tail(files))

RECURSIVE PageAt(_, _)
PageAt(files, k) ==
  IF k <= Len(Head(files).pages) THEN Head(files).pages[k]
  ELSE PageAt(Tail(files), k - Len(Head(files).pages))

MergeServed == pdfReq.route = "merge" /\ pdfResp # NoResp

C10_MergeOrder ==
  MergeServed =>
    /\ Len(pdfReq.files) < 2 =>
         pdfResp.status = 400 /\ pdfResp.error /\ pdfResp.docs = <<>>
    /\ (Len(pdfReq.files) >= 2 /\ \A i \in 1..Len(pdfReq.files) : pdfReq.files[i].pdf) =>
         /\ pdfResp.status = 200
         /\ pdfResp.type = "pdf"
         /\ Len(pdfResp.docs) = 1
         /\ Len(pdfResp.docs[1]) = PageCount(pdfReq.files)
         /\ \A k \in 1..PageCount(pdfReq.files) :
              pdfResp.docs[1][k] = PageAt(pdfReq.files, k)

\* C10 witness: two one-page PDFs A and B merged into <<A, B>>.
C10_Witness ==
  /\ MergeServed
  /\ pdfReq.files = <<PdfBuffer(<<"A">>), PdfBuffer(<<"B">>)>>
  /\ pdfResp.status = 200
  /\ pdfResp.docs = << <<"A", "B">> >>

\* ========================================================================
\* Page operation properties (checked under SpecPages)
\* ========================================================================

\* the client merged its two buffers and split the result with `ranges`
MergedThenSplit(ranges) ==
  /\ Len(pgLog) = 2
  /\ pgLog[1].op = "merge"
  /\ pgLog[2].op = "split"
  /\ pgLog[2].args.ranges = ranges

\* C11: for any two single-page PDFs A and B, splitting mergePdfs([A, B])
\* with ranges "1;2" returns exactly two one-page PDFs holding A's page and
\* B's page, in that order.
C11_RoundTrip ==
  (/\ MergedThenSplit(<<"1", ";", "2">>)
   /\ Len(pgFiles[1].pages) = 1
   /\ Len(pgFiles[2].pages) = 1)
    => /\ Len(pgParts) = 2
       /\ pgParts[1] = pgFiles[1].pages
       /\ pgParts[2] = pgFiles[2].pages

\* the round trip of two single-page PDFs with different pages
C11_Witness ==
  /\ MergedThenSplit(<<"1", ";", "2">>)
  /\ pgFiles[1].pages = <<Page("A", 0)>>
  /\ pgFiles[2].pages = <<Page("B", 90)>>
  /\ pgParts = << <<Page("A", 0)>>, <<Page("B", 90)>> >>

\* the last operation applied and what it was given
LastEntry == pgLog[Len(pgLog)]

\* the pages a rotation was asked to turn
Targeted(e) ==
  IF e.args.pages.given THEN Range(e.args.pages.list) ELSE 1..Len(e.before)

\* the angle a rotation was asked to add: the angle argument of a service
\* call, the integer written in the angle field of a request
IsIntegerText(f) ==
  /\ f.present
  /\ f.text # <<>>
  /\ LET u == IF Head(f.text) = "-" THEN Tail(f.text) ELSE f.text
     IN  u # <<>> /\ \A k \in 1..Len(u) : IsDigit(u[k])

IntegerOf(f) ==
  IF Head(f.text) = "-" THEN 0 - DigitsValue(Tail(f.text), 0)
  ELSE DigitsValue(f.text, 0)

Rotated(e, asked) ==
  /\ Len(e.after) = Len(e.before)
  /\ \A i \in 1..Len(e.before) :
       /\ e.after[i].content = e.before[i].content
       /\ e.after[i].rotation =
            IF i \in Targeted(e) THEN e.before[i].rotation + asked
            ELSE e.before[i].rotation

\* C12: a rotation sets each targeted page's rotation to its previous
\* rotation plus the requested angle and leaves every untargeted page as it
\* was (so angle a and then angle b give previous + a + b); through POST
\* /pdf/rotate the angle added is the integer angle the request sent.
C12_RotateAdds ==
  \A k \in 1..Len(pgLog) :
    LET e == pgLog[k] IN
      /\ (e.op = "rotate" /\ ~e.threw) => Rotated(e, e.args.angle)
      /\ (e.op = "rotate-route" /\ ~e.threw /\ IsIntegerText(e.args.field))
           => Rotated(e, IntegerOf(e.args.field))

\* the pages kept when the numbers of `list` are removed from `before`
Unrequested(before, list) ==
  LET idx == SelectSeq([i \in 1..Len(before) |-> i], LAMBDA i : i \notin Range(list))
  IN  [k \in 1..Len(idx) |-> before[idx[k]]]

\* C13: removePages never throws because of page numbers outside
\* [1, totalPages]: they are ignored, the result keeps exactly the pages not
\* requested, in their original order, and when every requested number is out
\* of range the result has all original pages in the original order.
C13_RemoveIgnoresOutOfRange ==
  (pgLog # <<>> /\ LastEntry.op = "remove") =>
    LET e == LastEntry IN
      /\ ~e.threw
      /\ e.after = Unrequested(e.before, e.args.pages.list)
      /\ (Range(e.args.pages.list) \cap 1..Len(e.before) = {}) => e.after = e.before

\* page 5 removed from a document of pages A, B: nothing is removed
C13_Witness ==
  /\ pgLog # <<>>
  /\ LastEntry.op = "remove"
  /\ LastEntry.args.pages.list = <<5>>
  /\ LastEntry.before = <<Page("A", 0), Page("B", 90)>>
  /\ ~LastEntry.threw
  /\ pgDoc = <<Page("A", 0), Page("B", 90)>>

\* the requested pages that exist, in the order requested
InRange(before, list) ==
  LET ok == SelectSeq(list, LAMBDA p : p \in 1..Len(before))
  IN  [k \in 1..Len(ok) |-> before[ok[k]]]

\* C14: extractPages applies removePages' policy to out-of-range page
\* numbers: a requested number outside [1, totalPages] is silently ignored,
\* the result holds the in-range requested pages and no error is raised.
C14_ExtractIgnoresOutOfRange ==
  (pgLog # <<>> /\ LastEntry.op = "extract") =>
    /\ ~LastEntry.threw
    /\ LastEntry.after = InRange(LastEntry.before, LastEntry.args.pages.list)

\* ========================================================================
\* Error handling properties (checked under Spec)
\* ========================================================================

\* the request has ended and it failed: a validation failure, or a service
\* call that threw
Failed == phase = "done" /\ (result = "threw" \/ res.error)

\* C15: every request that fails receives exactly one response, a JSON
\* object with an `error` string, with status 400 for validation failures and
\* 500 otherwise, also when the failure occurs after a zip response has
\* started: no failing request ends as a 200 response with a partial body and
\* no second response is attempted after headers were sent.
C15_OneJsonError ==
  Failed =>
    /\ res.type = "json"
    /\ res.error
    /\ res.complete
    /\ res.status = IF result = "threw" THEN 500 ELSE 400
    /\ ~lateResponse

\* C16: whenever an external tool cannot be spawned and the request fails for
\* that reason, the response is HTTP 500 and its error message carries the
\* hint that a required external tool is not installed or not found in PATH.
C16_SpawnErrorHint ==
  (phase = "done" /\ cause = "spawn") =>
    /\ res.status = 500
    /\ res.error
    /\ errHint # "none"

\* C17: no error response body contains an internal filesystem path or tool
\* arguments such as a PDF password, for every failure, a Process Runner
\* timeout included.
C17_NoInternalsInErrors ==
  (phase = "done" /\ res.error) => errMessage \cap {WorkspacePath, Password} = {}

\* addPassword or removePassword has run qpdf and the call has ended
QpdfDone ==
  /\ phase = "done"
  /\ req.route \in {"add-password", "remove-password"}
  /\ qpdfRuns # <<>>

GoodCode(run) == run.kind = "resolved" /\ run.code \in {0, 3}

BadCode(run) == run.kind = "resolved" /\ run.code \notin {0, 3}

Rejected(run) == run.kind # "resolved"

\* the file the operation is to return is not there
ResultMissing ==
  LET last == qpdfRuns[Len(qpdfRuns)] IN
    /\ GoodCode(last)
    /\ IF Len(qpdfRuns) = 2 /\ req.route = "remove-password"
         THEN ~last.inputExists ELSE ~last.outputExists

\* the ordering of the invocations and the file returned on success
QpdfOrder ==
  /\ Len(qpdfRuns) <= 2
  /\ qpdfRuns[1].args = "primary"
  /\ Len(qpdfRuns) = 2 <=> BadCode(qpdfRuns[1])
  /\ Len(qpdfRuns) = 2 => qpdfRuns[2].args = "alternate"
  /\ result = "returned" =>
       /\ res = FileSent
       /\ returned = IF Len(qpdfRuns) = 2 /\ req.route = "remove-password"
                       THEN "input.pdf" ELSE "output.pdf"

\* C20 as stated: the primary ordering first, the alternate at most once and
\* only after a primary exit code outside {0, 3}; the operation throws if and
\* only if both exit codes are outside {0, 3} or the expected result file is
\* missing.
C20_ThrowsIffBothFail ==
  QpdfDone =>
    /\ QpdfOrder
    /\ result = "threw" <=>
         \/ Len(qpdfRuns) = 2 /\ BadCode(qpdfRuns[1]) /\ BadCode(qpdfRuns[2])
         \/ ResultMissing

\* C20: addPassword and removePassword run qpdf with the primary ordering
\* first; the alternate runs at most once and only if the primary exit code is
\* neither 0 nor 3; exit code 3 counts as success; the operation throws if and
\* only if the Process Runner rejects an invocation (timeout or spawn error),
\* both exit codes are outside {0, 3}, or the expected result file is missing;
\* on success it returns output.pdf, except that removePassword returns the
\* rewritten input.pdf when only the alternate succeeded.
C20_QpdfFallback ==
  QpdfDone =>
    /\ QpdfOrder
    /\ result = "threw" <=>
         \/ \E k \in 1..Len(qpdfRuns) : Rejected(qpdfRuns[k])
         \/ Len(qpdfRuns) = 2 /\ BadCode(qpdfRuns[1]) /\ BadCode(qpdfRuns[2])
         \/ ResultMissing

\* removePassword: the primary exits 1, the alternate exits 3 and the
\* rewritten input.pdf is returned
C20_Witness ==
  /\ QpdfDone
  /\ req.route = "remove-password"
  /\ Len(qpdfRuns) = 2
  /\ qpdfRuns[1].code = 1
  /\ qpdfRuns[2].code = 3
  /\ result = "returned"
  /\ returned = "input.pdf"
  /\ res = FileSent

\* ========================================================================
\* Temp base properties (checked under SpecSweep and SpecJobs)
\* ========================================================================
\* a directory past the age limit whose own stat and removal succeed
OldDir(n) ==
  /\ tmpBase[n].kind = "dir"
  /\ tmpBase[n].age > MaxAgeMs
  /\ tmpBase[n].fault = "none"

\* C18: once startTempCleanup is running, every directory of the temp base
\* that is more than 30 minutes old is eventually deleted, whatever other
\* entries the base holds, entries whose stat or removal fails included.
\* (Stated here for the directories that can themselves be examined and
\* removed: the others cannot be deleted by any sweep.)
C18_OldDirsDeleted ==
  \A n \in EntryNames : (running /\ OldDir(n)) ~> (tmpBase[n] = Absent)

\* p is d or lies below d
Inside(p, d) == Len(p) >= Len(d) /\ SubSeq(p, 1, Len(d)) = d

\* the jobs that hold a workspace
WithWorkspace == {j \in DOMAIN jobs : jobs[j].dir # <<>>}

\* the raw file name of the upload names a parent directory
Climbs(raw) ==
  \E i \in 1..(Len(raw) - 2) :
    raw[i] = "." /\ raw[i + 1] = "." /\ raw[i + 2] \in {Slash, Backslash}

\* C19: for any interleaving of concurrent jobs, the workspaces createTempDir
\* returned are pairwise distinct and lie directly in the temp base, and every
\* path a job writes, reads or deletes (its input under the upload's file
\* name, the tool output, the LibreOffice profile directory, the final
\* cleanup) lies inside that job's own workspace, so in no other job's
\* workspace and not outside the temp base.
C19_WorkspaceIsolation ==
  /\ \A j \in WithWorkspace :
       /\ Inside(jobs[j].dir, TMP_BASE)
       /\ Len(jobs[j].dir) = Len(TMP_BASE) + 1
       /\ \A i \in WithWorkspace \ {j} : jobs[i].dir # jobs[j].dir
  /\ \A j \in DOMAIN jobs : \A t \in jobs[j].touched :
       /\ Inside(t.path, jobs[j].dir)
       /\ Inside(t.path, TMP_BASE)
       /\ \A i \in WithWorkspace \ {j} : ~Inside(t.path, jobs[i].dir)

\* two jobs that ran at the same time are through, both with every kind of
\* access made, one of them for an upload whose name climbs out of a directory
C19_Witness ==
  /\ WithWorkspace # {}
  /\ \E j \in WithWorkspace : \E i \in WithWorkspace \ {j} :
       /\ Climbs(jobs[j].upload.raw)
       /\ jobs[j].upload.service = "officeToPdf"
       /\ jobs[j].pc = "done" /\ jobs[i].pc = "done"
       /\ {t.op : t \in jobs[j].touched} = {"mkdir", "write", "tool", "read", "rm"}
       /\ \E t \in jobs[i].touched : t.op = "tool"

\* ========================================================================
\* Tool result properties (checked under Spec)
\* ========================================================================
\* the awaits at which a body waits for an external tool
ToolAwaits == {"exec1", "exec2", "alt", "ocrmypdf", "gs", "tesseract"}

\* the bodies that run qpdf, for which exit code 3 is success with warnings
QpdfBodies == {"repairPdf", "addPassword", "removePassword"}

\* the last service call returned a buffer straight after a tool ran
ReturnedAfterTool ==
  /\ result = "returned"
  /\ lastRun.body \in TempBodies
  /\ lastRun.at \in ToolAwaits

\* the exit code of the run signaled success
ToolSucceeded(run) ==
  /\ run.out.kind = "resolved"
  /\ run.out.code \in (IF run.body \in QpdfBodies THEN {0, 3} ELSE {0})

\* the file the run was to leave is there: the page images of the rasterizer,
\* the input rewritten in place by qpdf --replace-input, else the output file
ExpectedFileExists(run) ==
  CASE run.body = "pdfToImages" -> run.out.pages > 0
    [] run.body = "repairPdf" /\ run.at = "exec1" -> run.out.inputExists
    [] run.body = "removePassword" /\ run.at = "alt" -> run.out.inputExists
    [] OTHER -> run.out.outExists

\* C21: a Conversion Service that runs an external tool returns a buffer
\* only if the tool's exit code signaled success (0, or 3 for the qpdf-based
\* repair and password operations) and the expected output file exists;
\* repairPdf never returns the upload after a failed qpdf run.
C21_ReturnOnlyOnSuccess ==
  ReturnedAfterTool => ToolSucceeded(lastRun) /\ ExpectedFileExists(lastRun)

\* the bodies that hand back the content of a file a tool wrote
OutputReaders == {"officeToPdf", "pdfToOffice", "convertEbook", "convertVideo",
                  "convertWithImageMagick", "pdfToImages", "compressPdf", "repairPdf",
                  "addPassword", "removePassword"}

\* C22: no Conversion Service returns a tool output that is empty or below
\* its minimum plausible size: an output file of zero bytes left by a tool
\* that exited 0 makes the service throw, for every service that reads a
\* tool's output file, compressPdf, repairPdf, addPassword and removePassword
\* included.
C22_NoUndersizedOutput ==
  (ReturnedAfterTool /\ lastRun.body \in OutputReaders) => lastRun.out.sizeOk

\* C23: the periodic sweep never deletes the workspace of a job that has
\* been running for 30 minutes or less: whenever it deleted the workspace of
\* a job in flight, more than 30 minutes had passed since the job created it,
\* for any interleaving of sweep passes and job steps.
C23_SweepSparesYoungJobs == \A born \in lost : born > MaxAgeMs

\* the sweep has deleted the workspace of a job in flight
C23_Witness == lost # {} /\ running

\* ========================================================================
\* OCR tiers (checked under Spec)
\* ========================================================================
\* ocrPdf is, or was, the service of the request
InOcrPdf == invoked = <<"ocrPdf">> /\ ocrLog # <<>>

\* the tiers were tried in order: the dedicated tool first, the rasterizer
\* only after it failed, and for each page the pure-software engine only
\* straight after the native binary gave no text
TiersInOrder ==
  /\ ocrLog[1].at = "ocrmypdf"
  /\ \A i \in 2..Len(ocrLog) :
       /\ ocrLog[i].at # "ocrmypdf"
       /\ ocrLog[i].at = "gs" => i = 2 /\ ~ocrLog[1].ok
       /\ ocrLog[i].at = "tesseractjs" =>
            ocrLog[i - 1].at = "tesseract" /\ ocrLog[i - 1].text = "none"
  /\ (body = "ocrPdf" /\ pc = "gs") => Len(ocrLog) = 1 /\ ~ocrLog[1].ok
  /\ (body = "ocrPdf" /\ pc = "tesseractjs") =>
       ocrLog[Len(ocrLog)].at = "tesseract" /\ ocrLog[Len(ocrLog)].text = "none"

\* C24: ocrPdf tries its tiers strictly in order (rasterization only after
\* the dedicated OCR-PDF tool failed; per page the pure-software engine only
\* if the native binary yielded no text), and it throws only when
\* rasterization fails or produces no page image: when every OCR engine
\* fails on a page, the page has empty text and a PDF is still returned.
\* (A failure to create or write the workspace is left aside.)
C24_OcrTiers ==
  InOcrPdf =>
    /\ TiersInOrder
    /\ result = "threw" => ocrLog[Len(ocrLog)].at = "gs" /\ ~ocrLog[Len(ocrLog)].ok

\* ========================================================================
\* PDF to image (checked under Spec)
\* ========================================================================
\* the pdf->image rule served the request with page images
PdfToImagesServed ==
  /\ invoked = <<"pdfToImages">>
  /\ result = "returned"
  /\ res.status = 200

\* C25: for a PDF upload and every image target format the pdf->image rule
\* accepts, the rasterizer device is selected from the target format, so the
\* returned page images are encoded in the format that the file-name
\* extension and the Content-Type of the response announce.
C25_DeviceFromTarget ==
  PdfToImagesServed =>
    DeviceEncoding(GsDevice(passed[1])) = AnnouncedEncoding(targetFormat)

\* ---- C26 ----
VideoBuilt == vidResult # "none"

\* the options only the generic path adds
GenericOnly == {OptR, OptBv, OptCrf, OptVn, OptAn, OptCv, OptCa, OptPreset, OptQa, OptBa}

Occurrences(args, word) == Cardinality({k \in 1..Len(args) : args[k] = word})

\* for gif the vector holds -y, -i <input>, the trim, one -vf filter, -gifflags
\* and the output, and nothing from the generic path
C26_GifRebuilt ==
  (VideoBuilt /\ vidCall.target = Gif) =>
    LET trim == TrimArgs(vidCall.opts)
        n    == Len(trim)
    IN /\ Len(vidArgs) = 8 + n
       /\ SubSeq(vidArgs, 1, 3) = <<OptY, OptI, VideoInput(vidCall)>>
       /\ SubSeq(vidArgs, 4, 3 + n) = trim
       /\ vidArgs[4 + n] = OptVf
       /\ vidArgs[6 + n] = OptGifflags
       /\ \A k \in 1..Len(vidArgs) : vidArgs[k] \notin GenericOnly
       /\ Occurrences(vidArgs, OptVf) = 1

\* for every target the output path is the last argument and occurs once
C26_OutputLastOnce ==
  VideoBuilt =>
    /\ vidArgs[Len(vidArgs)] = VideoOutput(vidCall)
    /\ Occurrences(vidArgs, VideoOutput(vidCall)) = 1

\* C26: for target gif the ffmpeg argument vector is rebuilt from scratch and
\* holds nothing of the generic path whatever options were passed, and for
\* every target the output path occurs exactly once, as the last argument.
C26_GifRebuiltOutputLast == C26_GifRebuilt /\ C26_OutputLastOnce

\* ========================================================================
\* Input file and expected output file (checked under Spec)
\* ========================================================================
\* the dispatcher called a service that looks for its output by name
RoutedToChecked ==
  /\ Dispatched
  /\ invoked # <<>>
  /\ invoked[1] \in ExpectsOutput

\* C27: in every Conversion Service that checks for an expected output file,
\* the expected output path differs from the path the input was written to,
\* for every upload name and target format the dispatcher routes to it.
C27_OutputIsNotInput ==
  RoutedToChecked =>
    \A plat \in {"posix", "win32"} :
      ExpectedPath(invoked[1], req.name, targetFormat, plat)
        # InputPath(invoked[1], req.name, plat)

\* ========================================================================
\* The pages field of POST /pdf/remove-pages (checked under SpecPages)
\* ========================================================================
RemoveRouteAnswered == pgLog # <<>> /\ LastEntry.op = "remove-route"

\* the items of a pages field, written as a JSON array or as a comma list
FieldItems(f) ==
  LET t     == IF f.present THEN Trim(f.text) ELSE <<>>
      inner == IF Len(t) >= 2 /\ Head(t) = "[" /\ t[Len(t)] = "]"
                 THEN SubSeq(t, 2, Len(t) - 1) ELSE t
      items == Split(inner, ",")
  IN [k \in 1..Len(items) |-> Trim(items[k])]

IsPageNumber(s) ==
  /\ s # <<>>
  /\ \A i \in 1..Len(s) : IsDigit(s[i])
  /\ DigitsValue(s, 0) >= 1

\* the field names a non-empty list of page numbers
NamesPages(f) == \A k \in 1..Len(FieldItems(f)) : IsPageNumber(FieldItems(f)[k])

PagesNamed(f) == [k \in 1..Len(FieldItems(f)) |-> DigitsValue(FieldItems(f)[k], 0)]

\* C28: POST /pdf/remove-pages reads the pages field the same way as a JSON
\* array and as a comma-separated list: for every non-empty list of page
\* numbers, a single page sent as "3" included, removePages receives that
\* list and those pages are removed; only an empty or unparsable field
\* gives 400.
C28_PagesFieldEitherForm ==
  RemoveRouteAnswered =>
    LET e == LastEntry
        f == e.args.field
    IN /\ NamesPages(f) =>
            /\ e.status = 200
            /\ e.called /\ e.array /\ e.list = PagesNamed(f)
            /\ e.after = Unrequested(e.before, PagesNamed(f))
       /\ e.status = 400 => ~NamesPages(f)

\* the same for fields of two or more items, in either form
C28_SeveralPages ==
  (RemoveRouteAnswered /\ Len(FieldItems(LastEntry.args.field)) > 1) =>
    C28_PagesFieldEitherForm

\* ========================================================================
\* The module-state reducer (checked under SpecModule)
\* ========================================================================
ModShape(state) ==
  /\ 1 <= Len(state.history) /\ Len(state.history) <= 20
  /\ 0 <= state.index /\ state.index < Len(state.history)
  /\ state.current = At(state.history, state.index)

ModLast == modLog[Len(modLog)]

ModPrev == modLog[Len(modLog) - 1]

\* the last action, and the one before it
LastWas(type) == modLog # <<>> /\ ModLast.action.type = type

Changed(entry, after) == entry.before # after

\* the value a SET puts in place
SetValue(entry) ==
  IF entry.action.payload.fn
    THEN ApplyUpdater(entry.action.payload.val, entry.before.current)
    ELSE entry.action.payload.val

SetNew(entry) == entry.action.type = "SET" /\ SetValue(entry) # entry.before.current

\* UNDO at index 0 and REDO at the last index change nothing
EdgesAreNoOps ==
  /\ (LastWas("UNDO") /\ ModLast.before.index = 0) => modState = ModLast.before
  /\ (LastWas("REDO") /\ ModLast.before.index = Len(ModLast.before.history) - 1)
       => modState = ModLast.before

\* an UNDO that changed the state, then REDO: the state before the UNDO is back
UndoThenRedo ==
  (Len(modLog) >= 2 /\ ModPrev.action.type = "UNDO" /\ LastWas("REDO")
     /\ Changed(ModPrev, ModLast.before))
    => /\ modState.current = ModPrev.before.current
       /\ modState = ModPrev.before

\* a SET of a new value keeps the entries up to index, drops the rest, puts the
\* new value last (the oldest entry leaves when the history is full)
SetDiscardsRedo ==
  (LastWas("SET") /\ SetNew(ModLast)) =>
    LET b    == ModLast.before
        kept == SubSeq(b.history, 1, b.index + 1)
        full == Append(kept, SetValue(ModLast))
    IN /\ modState.history = IF Len(full) > 20 THEN Tail(full) ELSE full
       /\ modState.index = Len(modState.history) - 1
       /\ modState.current = SetValue(ModLast)
       /\ ~canRedo(modState)

\* REDO right after a SET of a new value does nothing
RedoAfterSet ==
  (Len(modLog) >= 2 /\ SetNew(ModPrev) /\ LastWas("REDO"))
    => modState = ModLast.before

\* C29: after any sequence of LOAD, SET, UNDO and REDO, 1 <= history.length <= 20,
\* 0 <= index < history.length and current = history[index]; UNDO at index 0
\* and REDO at the last index leave the state unchanged; an UNDO that changed
\* the state followed by REDO restores the previous current; a SET of a new
\* value discards every entry after index, so REDO right after it does nothing.
C29_HistoryReducer ==
  /\ ModShape(modState)
  /\ EdgesAreNoOps
  /\ UndoThenRedo
  /\ SetDiscardsRedo
  /\ RedoAfterSet

\* a full history: a SET after two UNDOs dropped the two entries after index,
\* and the REDO that followed changed nothing
C29_Witness ==
  /\ Len(modLog) >= 2
  /\ SetNew(ModPrev)
  /\ ModPrev.before.index = Len(ModPrev.before.history) - 3
  /\ Len(ModPrev.before.history) = 20
  /\ LastWas("REDO")
  /\ modState = ModLast.before

\* the history reached its cap and the oldest entry was shifted out
C29_WitnessFull ==
  /\ LastWas("SET")
  /\ SetNew(ModLast)
  /\ Len(ModLast.before.history) = 20
  /\ ModLast.before.index = 19
  /\ Len(modState.history) = 20

\* ========================================================================
\* The file manager's history (checked under SpecFiles)
\* ========================================================================
HistoryInStep ==
  /\ 0 <= fmIndex
  /\ fmIndex < Len(fmHistory)
  /\ Len(fmHistory) <= 20
  /\ fmSets = fmHistory[fmIndex + 1]

\* as long as every call ran on the callbacks of the latest state
C30_Sequential == (FmMounted /\ ~fmFellBack /\ fmRaces = 0) => HistoryInStep

\* C30: after any sequence of set and file operations, undo and redo,
\* 0 <= historyIndex < history.length <= 20 and the displayed sets equal
\* history[historyIndex], also when two operations are issued before the
\* provider renders again and so run with the same captured historyIndex
\* and history.
C30_HistoryInStep == (FmMounted /\ ~fmFellBack) => HistoryInStep

====
